---- MODULE Spec2Model ----
(***************************************************************************)
(* Login state machine of controllers/auth.go (ApiController.Login and     *)
(* ApiController.HandleLoggedIn) over a small storage of users, account    *)
(* links, identity links (UserIdProvider rows), role assignments and       *)
(* session entries.  One browser session is followed; every handler is one *)
(* atomic action that also records the trace of the request it served.     *)
(* The scan-event mailbox (HandleOfficialAccountEvent, GetWebhookEventType)*)
(* is a package-level slot guarded by a mutex; its handlers run on         *)
(* concurrent workers and are followed step by step.                       *)
(***************************************************************************)
EXTENDS Integers, Sequences, FiniteSets, TLC

VARIABLES
    users,      \* user table: name -> row (present = FALSE: no such row)
    idps,       \* UserIdProvider table: set of rows
    roles,      \* role assignments: set of <<user name, role>>
    sessionDb,  \* session table: user id -> number of entries appended
    sess,       \* server-side session slots of the browser session
    req,        \* the request in service: inputs, trace and responses
    wechatScanType, \* the scan-event slot (package variable)
    lock,       \* holders of the mutex guarding the slot
    web,        \* webhook workers: handler, position, inputs, response
    scan,       \* history of the slot: posts written, polls answered
    sync,       \* the directory synchronization in progress and its history
    other,      \* a second synchronization, parked while sync executes
    search      \* the directory search entry being converted by GetLdapUsers

loginVars == <<users, idps, roles, sessionDb, sess, req>>

mailVars == <<wechatScanType, lock, web, scan>>

syncVars == <<sync, other, search>>

vars == <<users, idps, roles, sessionDb, sess, req,
          wechatScanType, lock, web, scan, sync, other, search>>

(***************************************************************************)
(* Bounds                                                                  *)
(***************************************************************************)
MaxSessions == 2      \* session entries appended in one behaviour
MaxTime == 1          \* timestamps are 0..MaxTime
MaxPosts == 3         \* webhook posts accepted in one behaviour
MaxRuns == 2          \* runs of the directory synchronization in one behaviour
MaxAttrs == 3         \* attributes of one directory search entry
MaxLdaps == 2         \* LDAP servers configured for the organization

(***************************************************************************)
(* Program constants                                                       *)
(***************************************************************************)
SigninWrongTimesLimit == 2

ResponseTypeLogin == "login"
ResponseTypeCode == "code"
ResponseTypeToken == "token"
ResponseTypeIdToken == "id_token"
ResponseTypeSaml == "saml"
ResponseTypeCas == "cas"

RequiredMfa == "RequiredMfa"
NextMfa == "NextMfa"
NextChangePasswordForm == "NextChangePasswordForm"

Org == "org"
AppName == "app"
AuthState == "casdoor"
ProviderName == "prov"
ProviderType == "GitHub"
LdapServerId == "ldap1"

Names == {"alice", "bob", "carol", "alice_r1",
          "jdoe", "jdoe_1001", "jdoe_1001_a1b2c3", "jdoe_1001_d4e5f6",
          "kim", "msmith"}
Times == 0..MaxTime

(***************************************************************************)
(* Rows                                                                    *)
(***************************************************************************)
NoUser ==
    [present |-> FALSE, name |-> "", owner |-> "", type |-> "", tag |-> "",
     isAdmin |-> FALSE, isForbidden |-> FALSE, isDeleted |-> FALSE,
     mfa |-> FALSE, otp |-> "", recovery |-> {}, pwdChange |-> FALSE, subs |-> {},
     email |-> "", phone |-> "", ldap |-> "", link |-> "", props |-> "",
     password |-> "", wrong |-> 0]

BaseUser(n) ==
    [NoUser EXCEPT !.present = TRUE, !.name = n, !.owner = Org,
                   !.type = "normal-user", !.tag = "staff",
                   !.password = "pw"]

\* a response; names = the account names its message carries
NoResp == [status |-> "none", msg |-> "", data |-> "", names |-> {}]

Resp(status, msg, data) ==
    [status |-> status, msg |-> msg, data |-> data, names |-> {}]

EmptyResp == Resp("", "", "")

GetId(user) == IF user.name = "" THEN "/" ELSE user.name

IsGlobalAdmin(user) == user.owner = "built-in"

\* the context threaded through one handler run
Ctx(u, i, r, sd, s) ==
    [users |-> u, idps |-> i, roles |-> r, sessionDb |-> sd, sess |-> s,
     log |-> <<>>, out |-> <<>>, hl |-> NoResp]

\* v is evaluated once and handed to F
Bind(v, F(_)) == F(v)

Ev(c, op, a) == [c EXCEPT !.log = Append(@, <<op, a>>)]

Respond(c, status, msg, data) ==
    [Ev(c, "Response", status) EXCEPT !.out = Append(@, Resp(status, msg, data))]

\* c.Data["json"] = resp; c.ServeJSON()
Serve(c, resp) ==
    [Ev(c, "Response", resp.status) EXCEPT !.out = Append(@, resp)]

ResponseOk(c, data) == Respond(c, "ok", "", data)

ResponseError(c, msg) == Respond(c, "error", msg, "")

ResponseInternalServerError(c, msg) == Respond(c, "error", msg, "")

ResponseUnprocessableEntity(c, msg) == Respond(c, "error", msg, "")

SetSessionUsername(c, userId) ==
    [Ev(c, "SetSessionUsername", userId) EXCEPT !.sess.user = userId]

setMfaUserSession(c, userId) ==
    [Ev(c, "setMfaUserSession", userId) EXCEPT !.sess.mfa = userId]

setChangePasswordUserSession(c, userId) ==
    [Ev(c, "setChangePasswordUserSession", userId) EXCEPT !.sess.cp = userId]

AddSession(c, user) ==
    [Ev(c, "AddSession", user.name)
        EXCEPT !.sessionDb[GetId(user)] = @ + 1]

codeToResponse(code) ==
    IF code = "" THEN Resp("error", "code message", code)
                 ELSE Resp("ok", "", code)

tokenToResponse(accessToken) ==
    IF accessToken = "" THEN Resp("error", "fail to get accessToken", accessToken)
                        ELSE Resp("ok", "", accessToken)

wrapErrorResponse(err) ==
    IF err = "" THEN Resp("ok", "", "") ELSE Resp("error", err, "")

IsGrantTypeValid(type, grantTypes) == type \in grantTypes

BindIfSessionApp(c, in, userId) ==
    IF in.bind THEN SetSessionUsername(c, userId) ELSE c

(***************************************************************************)
(* HandleLoggedIn                                                          *)
(***************************************************************************)
\* a check that lets every code_challenge_method through
ChallengeMethodAllowed_Any(challengeMethod) == TRUE

\* challengeMethod != "S256" && challengeMethod != "null" && challengeMethod != ""
ChallengeMethodAllowed(challengeMethod) ==
    ~(challengeMethod # "S256" /\ challengeMethod # "null" /\ challengeMethod # "")

\* Variant of the artifact step that refuses a token only when the
\* application configures no grant type at all.
HLArtifact_AnyGrantType(c, user, in) ==
    LET userId == GetId(user) IN
    IF in.type = ResponseTypeLogin THEN
        [SetSessionUsername(c, userId) EXCEPT !.hl = Resp("ok", "", userId)]
    ELSE IF in.type = ResponseTypeCode THEN
        IF ~ChallengeMethodAllowed(in.cm) THEN
            ResponseError(c, "Challenge method should be S256")
        ELSE
            LET c1 == Ev(c, "GetOAuthCode", userId) IN
            IF in.issue = "err" THEN ResponseError(c1, "code error")
            ELSE
                LET code == IF in.issue = "ok" THEN "authcode" ELSE "" IN
                BindIfSessionApp([c1 EXCEPT !.hl = codeToResponse(code)], in, userId)
    ELSE IF in.type = ResponseTypeToken \/ in.type = ResponseTypeIdToken THEN
        IF ~IsGrantTypeValid(in.type, in.grantTypes) /\ in.grantTypes = {} THEN
            [Ev(c, "IsGrantTypeValid", "false")
                EXCEPT !.hl = Resp("error", "grant_type is not supported", "")]
        ELSE
            LET c1 == Ev(Ev(c, "IsGrantTypeValid",
                            IF IsGrantTypeValid(in.type, in.grantTypes)
                            THEN "true" ELSE "false"),
                         "GetTokenByUser", userId)
                at == IF in.issue = "ok" THEN "accesstoken" ELSE ""
            IN [c1 EXCEPT !.hl = tokenToResponse(at)]
    ELSE IF in.type = ResponseTypeSaml THEN
        LET c1 == Ev(c, "GetSamlResponse", userId) IN
        IF in.issue = "err" THEN ResponseError(c1, "saml error")
        ELSE BindIfSessionApp([c1 EXCEPT !.hl = Resp("ok", "", "assertion")], in, userId)
    ELSE IF in.type = ResponseTypeCas THEN
        LET c1 == [c EXCEPT !.hl = wrapErrorResponse("")]
            c2 == IF in.service # "" THEN
                      LET c3 == Ev(c1, "GenerateCasToken", in.service) IN
                      IF in.issue = "err"
                      THEN [c3 EXCEPT !.hl = wrapErrorResponse("cas error")]
                      ELSE [c3 EXCEPT !.hl.data = "ST-" \o in.service]
                  ELSE c1
        IN BindIfSessionApp(c2, in, userId)
    ELSE
        [c EXCEPT !.hl = wrapErrorResponse("unknown response type")]

\* Variant of the artifact step that drops the error of GenerateCasToken.
HLArtifact_IgnoresCasError(c, user, in) ==
    LET userId == GetId(user) IN
    IF in.type = ResponseTypeLogin THEN
        [SetSessionUsername(c, userId) EXCEPT !.hl = Resp("ok", "", userId)]
    ELSE IF in.type = ResponseTypeCode THEN
        IF ~ChallengeMethodAllowed(in.cm) THEN
            ResponseError(c, "Challenge method should be S256")
        ELSE
            LET c1 == Ev(c, "GetOAuthCode", userId) IN
            IF in.issue = "err" THEN ResponseError(c1, "code error")
            ELSE
                LET code == IF in.issue = "ok" THEN "authcode" ELSE "" IN
                BindIfSessionApp([c1 EXCEPT !.hl = codeToResponse(code)], in, userId)
    ELSE IF in.type = ResponseTypeToken \/ in.type = ResponseTypeIdToken THEN
        IF ~IsGrantTypeValid(in.type, in.grantTypes) THEN
            [Ev(c, "IsGrantTypeValid", "false")
                EXCEPT !.hl = Resp("error", "grant_type is not supported", "")]
        ELSE
            LET c1 == Ev(Ev(c, "IsGrantTypeValid", "true"), "GetTokenByUser", userId)
                at == IF in.issue = "ok" THEN "accesstoken" ELSE ""
            IN [c1 EXCEPT !.hl = tokenToResponse(at)]
    ELSE IF in.type = ResponseTypeSaml THEN
        LET c1 == Ev(c, "GetSamlResponse", userId) IN
        IF in.issue = "err" THEN ResponseError(c1, "saml error")
        ELSE BindIfSessionApp([c1 EXCEPT !.hl = Resp("ok", "", "assertion")], in, userId)
    ELSE IF in.type = ResponseTypeCas THEN
        LET c1 == [c EXCEPT !.hl = wrapErrorResponse("")]
            c2 == IF in.service # "" THEN
                      LET c3 == Ev(c1, "GenerateCasToken", in.service) IN
                      IF in.issue = "err"
                      THEN c3
                      ELSE [c3 EXCEPT !.hl.data = "ST-" \o in.service]
                  ELSE c1
        IN BindIfSessionApp(c2, in, userId)
    ELSE
        [c EXCEPT !.hl = wrapErrorResponse("unknown response type")]

HLArtifact(c, user, in) ==
    LET userId == GetId(user) IN
    IF in.type = ResponseTypeLogin THEN
        [SetSessionUsername(c, userId) EXCEPT !.hl = Resp("ok", "", userId)]
    ELSE IF in.type = ResponseTypeCode THEN
        IF ~ChallengeMethodAllowed(in.cm) THEN
            ResponseError(c, "Challenge method should be S256")
        ELSE
            LET c1 == Ev(c, "GetOAuthCode", userId) IN
            IF in.issue = "err" THEN ResponseError(c1, "code error")
            ELSE
                LET code == IF in.issue = "ok" THEN "authcode" ELSE "" IN
                BindIfSessionApp([c1 EXCEPT !.hl = codeToResponse(code)], in, userId)
    ELSE IF in.type = ResponseTypeToken \/ in.type = ResponseTypeIdToken THEN
        IF ~IsGrantTypeValid(in.type, in.grantTypes) THEN
            [Ev(c, "IsGrantTypeValid", "false")
                EXCEPT !.hl = Resp("error", "grant_type is not supported", "")]
        ELSE
            LET c1 == Ev(Ev(c, "IsGrantTypeValid", "true"), "GetTokenByUser", userId)
                at == IF in.issue = "ok" THEN "accesstoken" ELSE ""
            IN [c1 EXCEPT !.hl = tokenToResponse(at)]
    ELSE IF in.type = ResponseTypeSaml THEN
        LET c1 == Ev(c, "GetSamlResponse", userId) IN
        IF in.issue = "err" THEN ResponseError(c1, "saml error")
        ELSE BindIfSessionApp([c1 EXCEPT !.hl = Resp("ok", "", "assertion")], in, userId)
    ELSE IF in.type = ResponseTypeCas THEN
        LET c1 == [c EXCEPT !.hl = wrapErrorResponse("")]
            c2 == IF in.service # "" THEN
                      LET c3 == Ev(c1, "GenerateCasToken", in.service) IN
                      IF in.issue = "err"
                      THEN [c3 EXCEPT !.hl = wrapErrorResponse("cas error")]
                      ELSE [c3 EXCEPT !.hl.data = "ST-" \o in.service]
                  ELSE c1
        IN BindIfSessionApp(c2, in, userId)
    ELSE
        [c EXCEPT !.hl = wrapErrorResponse("unknown response type")]

HLFinish(c, user, in) ==
    LET c1 == IF c.hl.status = "ok" /\ ~in.autoSignin
              THEN Ev(c, "setExpireForSession", "") ELSE c
    IN
    IF c1.hl.status = "ok" THEN
        \* a failed AddSession answers with the error and returns; the named
        \* result resp still holds the ok response
        IF in.sessionErr
        THEN ResponseError(Ev(c1, "AddSessionError", user.name), "session error")
        ELSE AddSession(c1, user)
    ELSE c1

\* Variant of HandleLoggedIn that does not look at the application's tags.
HandleLoggedIn_NoTagCheck(c0, user, in) ==
    LET c == Ev([c0 EXCEPT !.hl = NoResp], "HandleLoggedIn", user.name) IN
    IF user.type = "invited-user" THEN
        ResponseError(c, "Unauthorized operation")
    ELSE IF in.perm = "err" THEN
        ResponseError(c, "permission error")
    ELSE IF in.perm # "allowed" THEN
        ResponseError(c, "Unauthorized operation")
    ELSE IF user.type = "paid-user" /\ "Active" \notin user.subs THEN
        IF "Pending" \in user.subs THEN ResponseOk(c, "BuyPlanResult")
        ELSE IF ~in.pricing THEN
            ResponseError(c, "paid-user does not have active or pending subscription")
        ELSE ResponseOk(c, "SelectPlan")
    ELSE
        Bind(HLArtifact(c, user, in),
             LAMBDA c1 : IF c1.hl.status = "none" THEN c1 ELSE HLFinish(c1, user, in))

\* Variant of HandleLoggedIn that takes any subscription for an active one.
HandleLoggedIn_PendingCompletes(c0, user, in) ==
    LET c == Ev([c0 EXCEPT !.hl = NoResp], "HandleLoggedIn", user.name) IN
    IF user.type = "invited-user" THEN
        ResponseError(c, "Unauthorized operation")
    ELSE IF in.perm = "err" THEN
        ResponseError(c, "permission error")
    ELSE IF in.perm # "allowed" THEN
        ResponseError(c, "Unauthorized operation")
    ELSE IF ~IsGlobalAdmin(user) /\ ~user.isAdmin /\ in.tags # {}
            /\ user.tag \notin in.tags THEN
        ResponseError(c, "User's tag is not listed in the application's tags")
    ELSE IF user.type = "paid-user" /\ user.subs = {} THEN
        IF "Pending" \in user.subs THEN ResponseOk(c, "BuyPlanResult")
        ELSE IF ~in.pricing THEN
            ResponseError(c, "paid-user does not have active or pending subscription")
        ELSE ResponseOk(c, "SelectPlan")
    ELSE
        Bind(HLArtifact(c, user, in),
             LAMBDA c1 : IF c1.hl.status = "none" THEN c1 ELSE HLFinish(c1, user, in))

HandleLoggedIn(c0, user, in) ==
    LET c == Ev([c0 EXCEPT !.hl = NoResp], "HandleLoggedIn", user.name) IN
    IF user.type = "invited-user" THEN
        ResponseError(c, "Unauthorized operation")
    ELSE IF in.perm = "err" THEN
        ResponseError(c, "permission error")
    ELSE IF in.perm # "allowed" THEN
        ResponseError(c, "Unauthorized operation")
    ELSE IF ~IsGlobalAdmin(user) /\ ~user.isAdmin /\ in.tags # {}
            /\ user.tag \notin in.tags THEN
        ResponseError(c, "User's tag is not listed in the application's tags")
    ELSE IF user.type = "paid-user" /\ "Active" \notin user.subs THEN
        IF "Pending" \in user.subs THEN ResponseOk(c, "BuyPlanResult")
        ELSE IF ~in.pricing THEN
            ResponseError(c, "paid-user does not have active or pending subscription")
        ELSE ResponseOk(c, "SelectPlan")
    ELSE
        Bind(HLArtifact(c, user, in),
             LAMBDA c1 : IF c1.hl.status = "none" THEN c1 ELSE HLFinish(c1, user, in))

(***************************************************************************)
(* Storage collaborators                                                   *)
(***************************************************************************)
GetUser(c, name) ==
    IF name \in Names /\ c.users[name].present THEN c.users[name] ELSE NoUser

GetUserByFields(c, username) == GetUser(c, username)

\* rows come back in primary-key order
NameOrder == <<"alice", "alice_r1", "bob", "carol",
               "jdoe", "jdoe_1001", "jdoe_1001_a1b2c3", "jdoe_1001_d4e5f6",
               "kim", "msmith">>

\* first row of the organization whose field equals value
GetUserByField(c, field, value) ==
    LET hit == {i \in 1..Len(NameOrder) :
                    /\ c.users[NameOrder[i]].present
                    /\ c.users[NameOrder[i]].owner = Org
                    /\ c.users[NameOrder[i]][field] = value}
    IN IF hit = {} THEN NoUser
       ELSE c.users[NameOrder[CHOOSE i \in hit : \A j \in hit : i <= j]]

MaxStamp(c) ==
    LET ts == {0} \cup {r.lastSignIn : r \in c.idps} \cup {r.created : r \in c.idps}
    IN CHOOSE t \in ts : \A o \in ts : o <= t

AddUser(c, user) ==
    [Ev(c, "AddUser", user.name) EXCEPT !.users[user.name] = user]

SetUserOAuthProperties(c, user, userInfo) ==
    [Ev(c, "SetUserOAuthProperties", user.name)
        EXCEPT !.users[user.name].props = userInfo.id]

LinkUserAccount(c, user, value) ==
    [Ev(c, "LinkUserAccount", user.name)
        EXCEPT !.users[user.name].link = value]

IdpKey(row) == <<row.owner, row.provider, row.ldapId, row.usernameFromIdp>>

AddUserIdProvider(c, row) ==
    LET same == {r \in c.idps : IdpKey(r) = IdpKey(row)} IN
    IF same = {} THEN
        [Ev(c, "AddUserIdProvider", row.usernameFromIdp)
            EXCEPT !.idps = @ \cup {row}]
    ELSE
        [Ev(c, "AddUserIdProvider", row.usernameFromIdp)
            EXCEPT !.idps = (@ \ same)
                \cup {[r EXCEPT !.lastSignIn = row.lastSignIn] : r \in same}]

UpdateUserIdProvider(c, row, column) ==
    LET same == {r \in c.idps : /\ r.owner = row.owner
                                /\ r[column] = row[column]
                                /\ r.usernameFromIdp = row.usernameFromIdp}
    IN [Ev(c, "UpdateUserIdProvider", row.usernameFromIdp)
           EXCEPT !.idps = (@ \ same)
               \cup {[r EXCEPT !.lastSignIn = row.lastSignIn] : r \in same}]

AddRolesToUser(c, userId, userRoles) ==
    [Ev(c, "AddRolesToUser", userId)
        EXCEPT !.roles = @ \cup {<<userId, r>> : r \in userRoles}]

IdpRow(provider, ldapId, usernameFromIdp, userId, now) ==
    [owner |-> Org, provider |-> provider, ldapId |-> ldapId,
     usernameFromIdp |-> usernameFromIdp, userId |-> userId,
     lastSignIn |-> now, created |-> now]

(***************************************************************************)
(* Credential and step-up collaborators                                    *)
(***************************************************************************)
\* CAPTCHA only once the counter has gone past the limit
CaptchaEnabled_PastLimit(user) == user.present /\ user.wrong > SigninWrongTimesLimit

CaptchaEnabled(user) == user.present /\ user.wrong >= SigninWrongTimesLimit

CheckToEnableCaptcha(c, username) == CaptchaEnabled(GetUserByFields(c, username))

recordSigninErrorInfo(c, user) ==
    IF user.wrong < SigninWrongTimesLimit
    THEN [c EXCEPT !.users[user.name].wrong = @ + 1]
    ELSE c

resetUserSigninErrorTimes(c, user) ==
    [c EXCEPT !.users[user.name].wrong = 0]

Ret(c, user, err) == [c |-> c, user |-> user, err |-> err]

CheckUserPassword(c0, username, password, isSigninViaLdap, isPasswordWithLdapEnabled) ==
    LET c == Ev(c0, "CheckUserPassword", username)
        user == GetUserByFields(c, username)
    IN
    IF ~user.present \/ user.isDeleted THEN
        Ret(c, NoUser, "The user does not exist")
    ELSE IF user.isForbidden THEN
        Ret(c, NoUser, "The user is forbidden to sign in")
    ELSE IF isSigninViaLdap /\ user.ldap = "" THEN
        Ret(c, NoUser, "The user is not an LDAP user")
    ELSE IF user.ldap # "" THEN
        IF ~isSigninViaLdap /\ ~isPasswordWithLdapEnabled
        THEN Ret(c, NoUser, "password or code is incorrect")
        ELSE Ret(c, user, "")
    ELSE IF password = user.password THEN
        LET c1 == resetUserSigninErrorTimes(c, user) IN
        Ret(c1, c1.users[user.name], "")
    ELSE
        Ret(recordSigninErrorInfo(c, user), NoUser, "password or code is incorrect")

CheckLdapUserPassword(c, user, in) ==
    Ret(Ev(c, "CheckLdapUserPassword", user.name), user,
        IF in.ldapPwOk THEN "" ELSE "LDAP password is incorrect")

IsNeedPromptMfa(in, user) == in.orgMfa /\ ~user.mfa

IsMfaEnabled(user) == user.mfa

IsPasswordChangeRequired(user) == user.pwdChange

(***************************************************************************)
(* Directory entry of a user name and its synchronization on first login   *)
(***************************************************************************)
LdapEntry(userName) ==
    [uid |-> userName, uidNumber |-> "1001", cn |-> userName,
     uuid |-> "uuid-" \o userName, displayName |-> "", email |-> "",
     mobile |-> ""]

\* variant: the lookup compares the user names, not the LDAP back-references
GetExistUuids_ByName(c, owner, uuids) ==
    {c.users[n].ldap : n \in {m \in Names : /\ c.users[m].present
                                            /\ c.users[m].owner = owner
                                            /\ c.users[m].name \in uuids}}

GetExistUuids(c, owner, uuids) ==
    {c.users[n].ldap : n \in {m \in Names : /\ c.users[m].present
                                            /\ c.users[m].owner = owner
                                            /\ c.users[m].ldap \in uuids}}

\* rows the query of buildLdapUserName matches: name = uid or name =
\* uid_uidNumber, in any organization (the query has no owner condition)
LdapNameHits(c, ldapUser) ==
    {n \in Names : /\ c.users[n].present
                   /\ \/ n = ldapUser.uid
                      \/ n = ldapUser.uid \o "_" \o ldapUser.uidNumber}

\* variant: a row named uid of another directory entry gets the random suffix
LdapUserNameFor_AlwaysSuffix(c, ldapUser, rnd, hit) ==
    LET uidWithNumber == ldapUser.uid \o "_" \o ldapUser.uidNumber IN
    IF hit # "" THEN
        IF c.users[hit].ldap = ldapUser.uuid THEN c.users[hit].name
        ELSE uidWithNumber \o "_" \o rnd
    ELSE IF ldapUser.uid # "" THEN ldapUser.uid
    ELSE ldapUser.cn

\* variant: the name test comes before the test of the LDAP back-reference
LdapUserNameFor_UidFirst(c, ldapUser, rnd, hit) ==
    LET uidWithNumber == ldapUser.uid \o "_" \o ldapUser.uidNumber IN
    IF hit # "" THEN
        IF c.users[hit].name = ldapUser.uid THEN uidWithNumber
        ELSE IF c.users[hit].ldap = ldapUser.uuid THEN c.users[hit].name
        ELSE uidWithNumber \o "_" \o rnd
    ELSE IF ldapUser.uid # "" THEN ldapUser.uid
    ELSE ldapUser.cn

\* the name resolved when Get returned the row named hit ("": no row)
LdapUserNameFor(c, ldapUser, rnd, hit) ==
    LET uidWithNumber == ldapUser.uid \o "_" \o ldapUser.uidNumber IN
    IF hit # "" THEN
        IF c.users[hit].ldap = ldapUser.uuid THEN c.users[hit].name
        ELSE IF c.users[hit].name = ldapUser.uid THEN uidWithNumber
        ELSE uidWithNumber \o "_" \o rnd
    ELSE IF ldapUser.uid # "" THEN ldapUser.uid
    ELSE ldapUser.cn

\* the rows Get may return: one of the matching rows, none if there is none
LdapNamePicks(c, ldapUser) ==
    IF LdapNameHits(c, ldapUser) = {} THEN {""} ELSE LdapNameHits(c, ldapUser)

\* Get returning the first matching row in key order
buildLdapUserName(c, ldapUser, rnd) ==
    LET hit == {i \in 1..Len(NameOrder) :
                    NameOrder[i] \in LdapNameHits(c, ldapUser)}
    IN LdapUserNameFor(c, ldapUser, rnd,
                       IF hit = {} THEN ""
                       ELSE NameOrder[CHOOSE i \in hit : \A j \in hit : i <= j])

buildLdapDisplayName(ldapUser) ==
    IF ldapUser.displayName # "" THEN ldapUser.displayName ELSE ldapUser.cn

\* tag derived from the ou= components of the bind DN of the LDAP source
LdapTag == "staff"

SyncRet(c, existUsers, failedUsers, err) ==
    [c |-> c, existUsers |-> existUsers, failedUsers |-> failedUsers, err |-> err]

RECURSIVE SyncLdapUsersFrom(_, _, _, _, _, _, _, _)
SyncLdapUsersFrom(c, owner, syncUsers, ldapId, in, i, existUsers, failedUsers) ==
    IF i > Len(syncUsers) THEN SyncRet(c, existUsers, failedUsers, "")
    ELSE
        LET syncUser == syncUsers[i]
            uuids == {syncUsers[k].uuid : k \in 1..Len(syncUsers)}
            c1 == Ev(c, "GetExistUuids", owner)
            found == syncUser.uuid \in GetExistUuids(c, owner, uuids)
            exist1 == IF found THEN Append(existUsers, syncUser) ELSE existUsers
            name == buildLdapUserName(c, syncUser, in.rnd)
            newUser == [BaseUser(name) EXCEPT
                            !.owner = owner, !.email = syncUser.email,
                            !.phone = syncUser.mobile, !.tag = LdapTag,
                            !.ldap = syncUser.uuid, !.password = ""]
            rolesOf(cx) == IF in.ldapRoleMapping
                           THEN AddRolesToUser(Ev(cx, "SyncRoles", name), name, in.mappedRoles)
                           ELSE cx
        IN
        IF found THEN
            SyncLdapUsersFrom(rolesOf(c1), owner, syncUsers, ldapId, in, i + 1,
                              exist1, failedUsers)
        ELSE IF in.addUser = "err" \/ name \notin Names \/ c.users[name].present THEN
            SyncRet(Ev(c1, "AddUserError", name), <<>>, <<>>, "insert failed")
        ELSE IF in.addUser = "unaffected" THEN
            SyncLdapUsersFrom(Ev(c1, "AddUserUnaffected", name), owner, syncUsers,
                              ldapId, in, i + 1, exist1, Append(failedUsers, syncUser))
        ELSE
            SyncLdapUsersFrom(
                rolesOf(AddUserIdProvider(AddUser(c1, newUser),
                            IdpRow("", ldapId, syncUser.uuid, name, in.now))),
                owner, syncUsers, ldapId, in, i + 1, exist1, failedUsers)

SyncLdapUsers(c, owner, syncUsers, ldapId, in) ==
    SyncLdapUsersFrom(c, owner, syncUsers, ldapId, in, 1, <<>>, <<>>)

\* GetLdaps(organization): the servers configured for the organization, in
\* the order of the query, each with what it answers to this request
\* ("down": no connection, "empty": no entry of that name, "found")
GetLdaps(in) == in.ldaps

LdapRet(c, user, err) == [c |-> c, user |-> user, err |-> err]

\* variant: the entry is synchronized before the password is checked
SyncUserFromLdapMatch_SyncFirst(c, organization, ldapServer, userName, in) ==
    Bind(SyncLdapUsers(c, organization, <<LdapEntry(userName)>>, ldapServer.id, in),
         LAMBDA r :
            Bind(CheckLdapUserPassword(r.c, [NoUser EXCEPT !.name = userName], in),
                 LAMBDA chk :
                    IF chk.err # "" THEN LdapRet(chk.c, "", chk.err)
                    ELSE LdapRet(chk.c, userName, r.err)))

\* the server returned an entry: check the password, then synchronize
SyncUserFromLdapMatch(c, organization, ldapServer, userName, in) ==
    Bind(CheckLdapUserPassword(c, [NoUser EXCEPT !.name = userName], in),
         LAMBDA chk :
            IF chk.err # "" THEN LdapRet(chk.c, "", chk.err)
            ELSE Bind(SyncLdapUsers(chk.c, organization, <<LdapEntry(userName)>>,
                                    ldapServer.id, in),
                      LAMBDA r : LdapRet(r.c, userName, r.err)))

\* the loop over the servers, from the i-th on
RECURSIVE SyncUserFromLdapFrom(_, _, _, _, _, _)
SyncUserFromLdapFrom(c, organization, ldapId, userName, in, i) ==
    IF i > Len(GetLdaps(in)) THEN LdapRet(c, "", "")
    ELSE
        LET ldapServer == GetLdaps(in)[i] IN
        IF ldapId # "" /\ ldapServer.id # ldapId THEN
            SyncUserFromLdapFrom(c, organization, ldapId, userName, in, i + 1)
        ELSE IF ldapServer.answer = "down" THEN
            SyncUserFromLdapFrom(Ev(c, "GetLdapConn", ldapServer.id),
                                 organization, ldapId, userName, in, i + 1)
        ELSE IF ldapServer.answer = "empty" THEN
            SyncUserFromLdapFrom(
                Ev(Ev(c, "GetLdapConn", ldapServer.id), "GetLdapUsers", userName),
                organization, ldapId, userName, in, i + 1)
        ELSE
            SyncUserFromLdapMatch(
                Ev(Ev(c, "GetLdapConn", ldapServer.id), "GetLdapUsers", userName),
                organization, ldapServer, userName, in)

SyncUserFromLdap(c, organization, ldapId, userName, in) ==
    SyncUserFromLdapFrom(c, organization, ldapId, userName, in, 1)

(***************************************************************************)
(* Login, branch: user name with password or verification code             *)
(***************************************************************************)
PwdAfterVerify(c, user, in, ldapId) ==
    IF ~in.appExists THEN
        ResponseError(c, "The application does not exist")
    ELSE IF IsNeedPromptMfa(in, user) THEN
        ResponseOk(SetSessionUsername(c, GetId(user)), RequiredMfa)
    ELSE IF IsMfaEnabled(user) THEN
        ResponseOk(setMfaUserSession(c, GetId(user)), NextMfa)
    ELSE IF IsPasswordChangeRequired(user) THEN
        ResponseOk(setChangePasswordUserSession(c, GetId(user)), NextChangePasswordForm)
    ELSE
        Bind(HandleLoggedIn(c, user, in),
             LAMBDA c1 :
                Serve(IF user.ldap # ""
                      THEN UpdateUserIdProvider(c1,
                               IdpRow("", ldapId, user.name, "", in.now), "ldapId")
                      ELSE c1,
                      c1.hl))

PwdChecked(r1, r2, viaDir, in) ==
    IF r2.err # "" THEN Serve(r2.c, Resp("error", r2.err, ""))
    ELSE IF r1.err # "" THEN Serve(r2.c, Resp("error", r1.err, ""))
    ELSE PwdAfterVerify(r2.c, r1.user, in,
                        IF viaDir THEN LdapServerId ELSE in.ldapId)

PwdLdapRebind(r1, isSigninViaLdap, isPasswordWithLdapEnabled, in) ==
    IF /\ r1.user.present /\ r1.user.ldap # ""
       /\ (isSigninViaLdap \/ isPasswordWithLdapEnabled)
    THEN Bind(CheckLdapUserPassword(r1.c, r1.user, in),
              LAMBDA r2 : PwdChecked(r1, r2, TRUE, in))
    ELSE PwdChecked(r1, r1, FALSE, in)

PwdCheckUser(c1, isSigninViaLdap, isPasswordWithLdapEnabled, in) ==
    Bind(CheckUserPassword(c1, in.username, in.password,
                           isSigninViaLdap, isPasswordWithLdapEnabled),
         LAMBDA r1 : PwdLdapRebind(r1, isSigninViaLdap, isPasswordWithLdapEnabled, in))

\* the result of SyncUserFromLdap as Login receives it: the user is
\* discarded, an error goes to the audit record
SyncUserFromLdapReturned(r) ==
    LET c1 == Ev(Ev(r.c, "SyncUserFromLdap.user", r.user),
                 "SyncUserFromLdap.err", r.err)
    IN IF r.err # "" THEN Ev(c1, "AddReason", "Ldap sync error") ELSE c1

PwdCredentials(c, in) ==
    PwdCheckUser(IF in.signinMethod = "LDAP" /\ ~GetUserByFields(c, in.username).present
                 THEN Bind(SyncUserFromLdap(c, Org, in.ldapId, in.username, in),
                           LAMBDA r : SyncUserFromLdapReturned(r))
                 ELSE c,
                 in.signinMethod = "LDAP",
                 in.signinMethod = "Password" /\ in.pwdWithLdap, in)

\* Variant of the password branch that goes on to the credential check
\* whatever the CAPTCHA proof says.
LoginPassword_IgnoresTuring(c, in) ==
    IF in.type = ResponseTypeLogin /\ c.sess.user # "" THEN
        ResponseError(c, "Please sign out first")
    ELSE IF in.password = "" THEN
        LET user == GetUserByFields(c, in.username) IN
        IF ~user.present THEN
            ResponseError(c, "Invalid username or password/code")
        ELSE
            LET c1 == Ev(c, "CheckSigninCode", user.name) IN
            IF ~in.codeOk THEN ResponseError(c1, "verification code is wrong")
            ELSE PwdAfterVerify(Ev(c1, "DisableVerificationCode", user.name),
                                user, in, in.ldapId)
    ELSE IF ~in.appExists THEN
        ResponseError(c, "The application does not exist")
    ELSE IF in.signinMethod = "Password" /\ ~in.enablePassword THEN
        ResponseError(c, "login with password is not enabled for the application")
    ELSE IF in.signinMethod = "LDAP" /\ ~in.ldapEnabled THEN
        ResponseError(c, "login with LDAP is not enabled for the application")
    ELSE IF in.captchaErr THEN
        ResponseInternalServerError(Ev(c, "CheckToEnableCaptcha", "err"),
                                    "internal server error")
    ELSE IF CheckToEnableCaptcha(c, in.username) THEN
        LET c1 == Ev(Ev(c, "CheckToEnableCaptcha", "true"),
                     "VerifyCaptcha", in.captcha) IN
        IF in.captcha = "err" THEN
            ResponseInternalServerError(c1, "internal server error")
        ELSE PwdCredentials(c1, in)
    ELSE PwdCredentials(Ev(c, "CheckToEnableCaptcha", "false"), in)

LoginPassword(c, in) ==
    IF in.type = ResponseTypeLogin /\ c.sess.user # "" THEN
        ResponseError(c, "Please sign out first")
    ELSE IF in.password = "" THEN
        LET user == GetUserByFields(c, in.username) IN
        IF ~user.present THEN
            ResponseError(c, "Invalid username or password/code")
        ELSE
            LET c1 == Ev(c, "CheckSigninCode", user.name) IN
            IF ~in.codeOk THEN ResponseError(c1, "verification code is wrong")
            ELSE PwdAfterVerify(Ev(c1, "DisableVerificationCode", user.name),
                                user, in, in.ldapId)
    ELSE IF ~in.appExists THEN
        ResponseError(c, "The application does not exist")
    ELSE IF in.signinMethod = "Password" /\ ~in.enablePassword THEN
        ResponseError(c, "login with password is not enabled for the application")
    ELSE IF in.signinMethod = "LDAP" /\ ~in.ldapEnabled THEN
        ResponseError(c, "login with LDAP is not enabled for the application")
    ELSE IF in.captchaErr THEN
        ResponseInternalServerError(Ev(c, "CheckToEnableCaptcha", "err"),
                                    "internal server error")
    ELSE IF CheckToEnableCaptcha(c, in.username) THEN
        LET c1 == Ev(Ev(c, "CheckToEnableCaptcha", "true"),
                     "VerifyCaptcha", in.captcha) IN
        IF in.captcha = "err" THEN
            ResponseInternalServerError(c1, "internal server error")
        ELSE IF in.captcha # "human" THEN
            ResponseError(c1, "Turing test failed.")
        ELSE PwdCredentials(c1, in)
    ELSE PwdCredentials(Ev(c, "CheckToEnableCaptcha", "false"), in)

(***************************************************************************)
(* Login, branches: pending MFA, pending password change, quick sign-in    *)
(***************************************************************************)
MfaRecover(c, user, recoveryCode) ==
    [Ev(c, "MfaRecover", user.name)
        EXCEPT !.users[user.name].recovery = @ \ {recoveryCode}]

MfaCompletion(c, user, in) ==
    IF ~in.appExists THEN
        ResponseError(c, "The application does not exist")
    ELSE IF IsPasswordChangeRequired(user) THEN
        ResponseOk(setMfaUserSession(
                       setChangePasswordUserSession(c, GetId(user)), ""),
                   NextChangePasswordForm)
    ELSE
        Bind(HandleLoggedIn(c, user, in),
             LAMBDA c1 : Serve(setMfaUserSession(c1, ""), c1.hl))

\* Variant of the MFA branch that drops the pending-MFA marker when the
\* passcode is wrong (the behaviour C2 rules out).
LoginMfa_ClearsMarker(c, in) ==
    LET user == GetUser(c, c.sess.mfa) IN
    IF ~user.present THEN ResponseError(c, "expired user session")
    ELSE IF in.passcode # "" THEN
        IF ~in.mfaTypeOk THEN
            ResponseError(c, "Invalid multi-factor authentication type")
        ELSE
            LET c1 == Ev(c, "MfaVerify", in.passcode) IN
            IF in.passcode # user.otp
            THEN ResponseUnprocessableEntity(setMfaUserSession(c1, ""),
                                             "OTP was wrong")
            ELSE MfaCompletion(Ev(c1, "MfaVerified", user.name), user, in)
    ELSE IF in.recoveryCode # "" THEN
        IF in.recoveryCode \notin user.recovery
        THEN ResponseInternalServerError(Ev(c, "MfaRecoverFailed", user.name),
                                         "internal server error")
        ELSE Bind(MfaRecover(c, user, in.recoveryCode),
                  LAMBDA c1 : MfaCompletion(Ev(c1, "MfaVerified", user.name),
                                            c1.users[user.name], in))
    ELSE ResponseError(c, "missing passcode or recovery code")

LoginMfa(c, in) ==
    LET user == GetUser(c, c.sess.mfa) IN
    IF ~user.present THEN ResponseError(c, "expired user session")
    ELSE IF in.passcode # "" THEN
        IF ~in.mfaTypeOk THEN
            ResponseError(c, "Invalid multi-factor authentication type")
        ELSE
            LET c1 == Ev(c, "MfaVerify", in.passcode) IN
            IF in.passcode # user.otp
            THEN ResponseUnprocessableEntity(c1, "OTP was wrong")
            ELSE MfaCompletion(Ev(c1, "MfaVerified", user.name), user, in)
    ELSE IF in.recoveryCode # "" THEN
        IF in.recoveryCode \notin user.recovery
        THEN ResponseInternalServerError(Ev(c, "MfaRecoverFailed", user.name),
                                         "internal server error")
        ELSE Bind(MfaRecover(c, user, in.recoveryCode),
                  LAMBDA c1 : MfaCompletion(Ev(c1, "MfaVerified", user.name),
                                            c1.users[user.name], in))
    ELSE ResponseError(c, "missing passcode or recovery code")

LoginChangePassword(c, in) ==
    LET user == GetUser(c, c.sess.cp) IN
    IF ~user.present THEN ResponseError(c, "expired user session")
    ELSE IF IsPasswordChangeRequired(user) THEN
        ResponseOk(c, NextChangePasswordForm)
    ELSE IF ~in.appExists THEN
        ResponseError(c, "The application does not exist")
    ELSE
        Bind(HandleLoggedIn(c, user, in),
             LAMBDA c1 : Serve(setChangePasswordUserSession(c1, ""), c1.hl))

LoginQuick(c, in) ==
    IF c.sess.user # "" THEN
        IF ~in.appExists THEN
            ResponseError(c, "The application does not exist")
        ELSE
            Bind(HandleLoggedIn(c, GetUser(c, c.sess.user), in),
                 LAMBDA c1 : Serve(c1, c1.hl))
    ELSE ResponseError(c, "Unknown authentication type (not password or provider)")

(***************************************************************************)
(* Login, branch: external provider                                        *)
(***************************************************************************)
IsThirdParty(category) == category \in {"OAuth", "Web3", "SAML"}

\* a nil organization is dereferenced: the handler panics
Panic(c) == Ev(c, "panic", "")

ProviderRoles(c3, user, in) ==
    IF in.roleMapping /\ in.roleErr THEN
        ResponseInternalServerError(Ev(c3, "NewRoleMapperError", ""),
                                    "internal server error")
    ELSE
        Bind(HandleLoggedIn(IF in.roleMapping
                            THEN AddRolesToUser(c3, GetId(user), in.mappedRoles)
                            ELSE c3,
                            c3.users[user.name], in),
             LAMBDA c5 : Serve(c5, c5.hl))

ProviderIdLink(c2, user, info, in) ==
    IF in.orgErr THEN Panic(c2)
    ELSE ProviderRoles(AddUserIdProvider(c2,
                           IdpRow(ProviderName, "", info.username, user.name, in.now)),
                       user, in)

ProviderLink(c, user, info, in) ==
    ProviderIdLink(LinkUserAccount(IF in.category # "SAML"
                                   THEN SetUserOAuthProperties(c, user, info)
                                   ELSE c,
                                   user, info.id),
                   user, info, in)

\* variant: the provider item's CanSignUp flag is not consulted
ProviderCreate_IgnoresCanSignUp(c, info, in) ==
    IF ~in.internalSignUp /\ ~in.idpSignUp THEN
        ResponseError(c, "not allowed to sign up as new account")
    ELSE
        LET tmpUser == GetUser(c, info.username)
            info1 == IF tmpUser.present
                     THEN [info EXCEPT !.username = @ \o "_" \o in.rnd] ELSE info
            user == [BaseUser(info1.username) EXCEPT
                         !.email = info1.email, !.phone = info1.phone,
                         !.tag = "", !.password = ""]
        IN
        IF in.orgErr THEN Panic(c)
        ELSE IF in.addUser = "err" \/ user.name \notin Names
                \/ c.users[user.name].present THEN
            ResponseInternalServerError(Ev(c, "AddUserError", user.name),
                                        "internal server error")
        ELSE IF in.addUser = "unaffected" THEN
            ResponseError(Ev(c, "AddUserUnaffected", user.name),
                          "Failed to create user, user information is invalid")
        ELSE ProviderLink(AddUser(c, user), user, info1, in)

ProviderCreate(c, info, in) ==
    IF ~in.internalSignUp /\ ~in.idpSignUp THEN
        ResponseError(c, "not allowed to sign up as new account")
    ELSE IF ~in.canSignUp THEN
        ResponseError(c, "not allowed to sign up as new account via provider")
    ELSE
        LET tmpUser == GetUser(c, info.username)
            info1 == IF tmpUser.present
                     THEN [info EXCEPT !.username = @ \o "_" \o in.rnd] ELSE info
            user == [BaseUser(info1.username) EXCEPT
                         !.email = info1.email, !.phone = info1.phone,
                         !.tag = "", !.password = ""]
        IN
        IF in.orgErr THEN Panic(c)
        ELSE IF in.addUser = "err" \/ user.name \notin Names
                \/ c.users[user.name].present THEN
            ResponseInternalServerError(Ev(c, "AddUserError", user.name),
                                        "internal server error")
        ELSE IF in.addUser = "unaffected" THEN
            ResponseError(Ev(c, "AddUserUnaffected", user.name),
                          "Failed to create user, user information is invalid")
        ELSE ProviderLink(AddUser(c, user), user, info1, in)

ProviderSignup(c, info, in) ==
    LET user0 == IF IsThirdParty(in.category)
                 THEN GetUserByField(c, "link", info.id)
                 ELSE [NoUser EXCEPT !.present = TRUE]
    IN
    IF user0.present /\ ~user0.isDeleted THEN
        IF user0.isForbidden THEN
            ResponseError(c, "The user is forbidden to sign in")
        ELSE
            Bind(HandleLoggedIn(c, user0, in),
                 LAMBDA c1 :
                    IF in.orgErr THEN Panic(c1)
                    ELSE Serve(UpdateUserIdProvider(c1,
                                   IdpRow(ProviderName, "", info.username, "", in.now),
                                   "provider"),
                               c1.hl))
    ELSE IF IsThirdParty(in.category) THEN
        LET byEmail == IF in.linkWithEmail /\ info.email # ""
                       THEN GetUserByField(c, "email", info.email) ELSE user0
            user1 == IF in.linkWithEmail /\ ~byEmail.present /\ info.phone # ""
                     THEN GetUserByField(c, "phone", info.phone) ELSE byEmail
        IN
        IF ~user1.present \/ user1.isDeleted
        THEN ProviderCreate(c, info, in)
        ELSE ProviderLink(c, user1, info, in)
    ELSE Serve(c, EmptyResp)

\* Variant of the link step that moves an identity linked to somebody else.
ProviderSignin_Relinks(c, info, in) ==
    LET userId == c.sess.user
        oldUser == GetUserByField(c, "link", info.id)
    IN
    IF userId = "" THEN
        ResponseError(c, "Invalid username or password/code")
    ELSE IF oldUser.present /\ oldUser.name = userId THEN
        Serve(c, [Resp("error", "already linked to another account", "")
                      EXCEPT !.names = {info.username, oldUser.name}])
    ELSE
        Serve(LinkUserAccount(SetUserOAuthProperties(c, GetUser(c, userId), info),
                              GetUser(c, userId), info.id),
              Resp("ok", "", "true"))

ProviderSignin(c, info, in) ==
    LET userId == c.sess.user
        oldUser == GetUserByField(c, "link", info.id)
    IN
    IF userId = "" THEN
        ResponseError(c, "Invalid username or password/code")
    ELSE IF oldUser.present THEN
        Serve(c, [Resp("error", "already linked to another account", "")
                      EXCEPT !.names = {info.username, oldUser.name}])
    ELSE
        Serve(LinkUserAccount(SetUserOAuthProperties(c, GetUser(c, userId), info),
                              GetUser(c, userId), info.id),
              Resp("ok", "", "true"))

ProviderMethod(c, info, in) ==
    IF in.method = "signup" THEN ProviderSignup(c, info, in)
    ELSE ProviderSignin(c, info, in)

\* Variant of the provider branch that only asks for some state value.
LoginProvider_AnyState(c0, in) ==
    IF ~in.appExists THEN
        ResponseError(c0, "The application does not exist")
    ELSE
    LET c == IF in.orgErr THEN ResponseError(c0, "organization error") ELSE c0 IN
    IF ~in.provVisible THEN
        ResponseError(c, "The provider is not enabled for the application")
    ELSE IF in.category = "SAML" THEN
        LET c1 == Ev(c, "ParseSamlResponse", "") IN
        IF in.samlErr THEN ResponseInternalServerError(c1, "internal server error")
        ELSE ProviderMethod(c1, in.info, in)
    ELSE IF in.category = "OAuth" \/ in.category = "Web3" THEN
        IF in.state = "" THEN
            ResponseError(c, "State expected, but got another")
        ELSE
            LET c1 == Ev(c, "GetToken", "") IN
            IF in.token = "err" THEN
                ResponseInternalServerError(c1, "internal server error")
            ELSE IF in.token # "valid" THEN
                ResponseError(c1, "Invalid token")
            ELSE
                LET c2 == Ev(c1, "GetUserInfo", "") IN
                IF in.userInfoErr THEN ResponseError(c2, "Failed to login in")
                ELSE IF in.category = "OAuth" /\ in.jwt = "bad" THEN
                    ResponseError(c2, "Invalid token")
                ELSE ProviderMethod(c2, in.info, in)
    ELSE ProviderMethod(c, [id |-> "", username |-> "", email |-> "", phone |-> ""], in)

LoginProvider(c0, in) ==
    IF ~in.appExists THEN
        ResponseError(c0, "The application does not exist")
    ELSE
    LET c == IF in.orgErr THEN ResponseError(c0, "organization error") ELSE c0 IN
    IF ~in.provVisible THEN
        ResponseError(c, "The provider is not enabled for the application")
    ELSE IF in.category = "SAML" THEN
        LET c1 == Ev(c, "ParseSamlResponse", "") IN
        IF in.samlErr THEN ResponseInternalServerError(c1, "internal server error")
        ELSE ProviderMethod(c1, in.info, in)
    ELSE IF in.category = "OAuth" \/ in.category = "Web3" THEN
        IF in.state # AuthState /\ in.state # AppName THEN
            ResponseError(c, "State expected, but got another")
        ELSE
            LET c1 == Ev(c, "GetToken", "") IN
            IF in.token = "err" THEN
                ResponseInternalServerError(c1, "internal server error")
            ELSE IF in.token # "valid" THEN
                ResponseError(c1, "Invalid token")
            ELSE
                LET c2 == Ev(c1, "GetUserInfo", "") IN
                IF in.userInfoErr THEN ResponseError(c2, "Failed to login in")
                ELSE IF in.category = "OAuth" /\ in.jwt = "bad" THEN
                    ResponseError(c2, "Invalid token")
                ELSE ProviderMethod(c2, in.info, in)
    ELSE ProviderMethod(c, [id |-> "", username |-> "", email |-> "", phone |-> ""], in)

(***************************************************************************)
(* Request inputs: the form, the configuration read by the request and the *)
(* answers of the external collaborators                                   *)
(***************************************************************************)
InfoAlice == [id |-> "s1", username |-> "alice", email |-> "alice@x", phone |-> ""]
InfoBob == [id |-> "s2", username |-> "bob", email |-> "", phone |-> ""]
\* the subject s2 under the name the provider knows it by
InfoRobert == [id |-> "s2", username |-> "robert", email |-> "", phone |-> ""]
InfoCarol == [id |-> "s3", username |-> "carol", email |-> "", phone |-> ""]
\* a new subject reporting a phone number only
InfoCarolPhone == [InfoCarol EXCEPT !.phone = "777"]
\* a new subject reporting an email address and a phone number
InfoCarolContacts == [InfoCarol EXCEPT !.email = "alice@x", !.phone = "777"]
\* the subject s1 coming back under a new username, reporting a phone number
InfoReturning == [InfoCarolPhone EXCEPT !.id = "s1"]

DefIn ==
    [username |-> "", password |-> "", codeOk |-> TRUE, signinMethod |-> "Password",
     ldapId |-> "", provider |-> "", method |-> "", state |-> AuthState,
     passcode |-> "", recoveryCode |-> "", mfaTypeOk |-> TRUE,
     type |-> ResponseTypeLogin, autoSignin |-> FALSE, cm |-> "", service |-> "",
     appExists |-> TRUE, tags |-> {}, bind |-> FALSE,
     grantTypes |-> {ResponseTypeToken, ResponseTypeIdToken}, pricing |-> FALSE,
     enablePassword |-> TRUE, ldapEnabled |-> TRUE, pwdWithLdap |-> FALSE,
     linkWithEmail |-> FALSE, internalSignUp |-> TRUE,
     idpSignUp |-> TRUE, provVisible |-> TRUE, canSignUp |-> TRUE,
     category |-> "OAuth", roleMapping |-> FALSE, mappedRoles |-> {"member"},
     ldapRoleMapping |-> FALSE, orgMfa |-> FALSE,
     issue |-> "ok", perm |-> "allowed", captchaErr |-> FALSE, captcha |-> "human",
     ldaps |-> <<[id |-> LdapServerId, answer |-> "found"]>>,
     ldapPwOk |-> TRUE, addUser |-> "ok",
     rnd |-> "r1", now |-> 0, token |-> "valid", userInfoErr |-> FALSE,
     jwt |-> "none", samlErr |-> FALSE, info |-> InfoCarol, roleErr |-> FALSE,
     orgErr |-> FALSE, sessionErr |-> FALSE]

(***************************************************************************)
(* Login: dispatch on the shape of the request                             *)
(***************************************************************************)
Branch(s, in) ==
    IF in.username # "" THEN "password"
    ELSE IF in.provider # "" THEN "provider"
    ELSE IF s.mfa # "" THEN "mfa"
    ELSE IF s.cp # "" THEN "changePassword"
    ELSE "quick"

Login(c, in) ==
    IF in.username # "" THEN LoginPassword(c, in)
    ELSE IF in.provider # "" THEN LoginProvider(c, in)
    ELSE IF c.sess.mfa # "" THEN LoginMfa(c, in)
    ELSE IF c.sess.cp # "" THEN LoginChangePassword(c, in)
    ELSE LoginQuick(c, in)

\* storage as a request found it (kept with the request for the properties)
Store(u, i, r, sd) == [users |-> u, idps |-> i, roles |-> r, sessionDb |-> sd]

NoStore ==
    Store([n \in Names |-> NoUser], {}, {}, [n \in Names \cup {"/"} |-> 0])

IdleReq ==
    [pc |-> "idle", handler |-> "", branch |-> "", in |-> DefIn, log |-> <<>>,
     out |-> <<>>, hl |-> NoResp, pre |-> [user |-> "", mfa |-> "", cp |-> ""],
     store |-> NoStore,
     wasOtpWrong |-> FALSE, otpWrong |-> FALSE, mfaDone |-> {}]

TotalSessions == sessionDb["alice"] + sessionDb["bob"] + sessionDb["carol"]
                    + sessionDb["alice_r1"] + sessionDb["/"]

HasEv(log, op) == \E i \in 1..Len(log) : log[i][1] = op

\* one Login request, served from start to end
ServeLogin(in, branch) ==
    /\ req.pc = "idle"
    /\ TotalSessions < MaxSessions
    /\ Branch(sess, in) = branch
    /\ in.now >= MaxStamp(Ctx(users, idps, roles, sessionDb, sess))
    /\ \E c \in {Login(Ctx(users, idps, roles, sessionDb, sess), in)} :
       /\ users' = c.users
       /\ idps' = c.idps
       /\ roles' = c.roles
       /\ sessionDb' = c.sessionDb
       /\ sess' = c.sess
       /\ req' = [pc |-> "served", handler |-> "Login", branch |-> branch,
                  in |-> in, log |-> c.log, out |-> c.out, hl |-> c.hl,
                  pre |-> sess, store |-> Store(users, idps, roles, sessionDb),
                  wasOtpWrong |-> req.otpWrong,
                  otpWrong |->
                      IF c.sess.mfa = "" \/ c.sess.mfa # sess.mfa THEN FALSE
                      ELSE req.otpWrong \/ (HasEv(c.log, "MfaVerify")
                                            /\ ~HasEv(c.log, "MfaVerified")),
                  mfaDone |->
                      IF HasEv(c.log, "MfaVerified")
                      THEN req.mfaDone \cup {sess.mfa} ELSE req.mfaDone]
    /\ UNCHANGED <<mailVars, syncVars>>

\* the request ends; its context is dropped
EndRequest ==
    /\ req.pc = "served"
    /\ req' = [IdleReq EXCEPT !.otpWrong = req.otpWrong, !.mfaDone = req.mfaDone]
    /\ UNCHANGED <<users, idps, roles, sessionDb, sess>>
    /\ UNCHANGED <<mailVars, syncVars>>

GetCaptchaStatus(userId) ==
    /\ req.pc = "idle"
    /\ LET c == Ctx(users, idps, roles, sessionDb, sess)
           user == GetUserByFields(c, userId)
           captchaEnabled == CaptchaEnabled(user)
           c1 == ResponseOk(c, IF captchaEnabled THEN "true" ELSE "false")
       IN req' = [IdleReq EXCEPT !.pc = "served", !.handler = "GetCaptchaStatus",
                                 !.in.username = userId, !.log = c1.log,
                                 !.store = Store(users, idps, roles, sessionDb),
                                 !.out = c1.out, !.otpWrong = req.otpWrong,
                                 !.mfaDone = req.mfaDone]
    /\ UNCHANGED <<users, idps, roles, sessionDb, sess>>
    /\ UNCHANGED <<mailVars, syncVars>>

\* the user sets a new password through the account page
SetPassword(n) ==
    /\ req.pc = "idle"
    /\ users[n].present /\ users[n].pwdChange
    /\ users' = [users EXCEPT ![n].pwdChange = FALSE]
    /\ UNCHANGED <<idps, roles, sessionDb, sess, req>>
    /\ UNCHANGED <<mailVars, syncVars>>

\* the browser session is signed out
Logout ==
    /\ req.pc = "idle"
    /\ sess # [user |-> "", mfa |-> "", cp |-> ""]
    /\ sess' = [user |-> "", mfa |-> "", cp |-> ""]
    /\ req' = IdleReq
    /\ UNCHANGED <<users, idps, roles, sessionDb>>
    /\ UNCHANGED <<mailVars, syncVars>>

(***************************************************************************)
(* GetLdapUsers: the conversion of one search entry into an LdapUser, one  *)
(* step per attribute of the entry.  bySwitch and byMapping are history    *)
(* only: the fields the fixed table and the attribute mapping assigned.    *)
(***************************************************************************)
LdapFields ==
    {"UidNumber", "Uid", "Cn", "GidNumber", "Uuid", "UserPrincipalName",
     "DisplayName", "Mail", "Email", "EmailAddress", "TelephoneNumber",
     "Mobile", "MobileTelephoneNumber", "RegisteredAddress", "PostalAddress",
     "MemberOf"}

\* the switch on attribute.Name: the field the fixed table assigns ("": none)
FixedField(name) ==
    CASE name = "uidNumber" -> "UidNumber"
      [] name = "uid" -> "Uid"
      [] name = "sAMAccountName" -> "Uid"
      [] name = "cn" -> "Cn"
      [] name = "gidNumber" -> "GidNumber"
      [] name = "entryUUID" -> "Uuid"
      [] name = "objectGUID" -> "Uuid"
      [] name = "userPrincipalName" -> "UserPrincipalName"
      [] name = "displayName" -> "DisplayName"
      [] name = "mail" -> "Mail"
      [] name = "email" -> "Email"
      [] name = "emailAddress" -> "EmailAddress"
      [] name = "telephoneNumber" -> "TelephoneNumber"
      [] name = "mobile" -> "Mobile"
      [] name = "mobileTelephoneNumber" -> "MobileTelephoneNumber"
      [] name = "registeredAddress" -> "RegisteredAddress"
      [] name = "postalAddress" -> "PostalAddress"
      [] name = "memberOf" -> "MemberOf"
      [] OTHER -> ""

\* ldapServer.RoleMappingItems: attribute, value, role
RoleMappingItems ==
    {<<"memberOf", "admins", "admin">>, <<"memberOf", "devs", "developer">>,
     <<"title", "staff", "employee">>}

\* roleMappingMap[attribute][value].StrRoles(): empty when there is no entry
RoleMappingRoles(name, value) ==
    IF <<name, value, "admin">> \in RoleMappingItems THEN <<"admin">>
    ELSE IF <<name, value, "developer">> \in RoleMappingItems THEN <<"developer">>
    ELSE IF <<name, value, "employee">> \in RoleMappingItems THEN <<"employee">>
    ELSE <<>>

\* ldapServer.AttributeMappingItems: the user field an attribute is mapped to
AttributeMappingField(name) ==
    CASE name = "mail" -> "Email"
      [] name = "title" -> "DisplayName"
      [] name = "uid" -> "Uid"
      [] OTHER -> ""

RECURSIVE RolesOfValues(_, _)
RolesOfValues(name, values) ==
    IF values = <<>> THEN <<>>
    ELSE RoleMappingRoles(name, Head(values)) \o RolesOfValues(name, Tail(values))

IdleSearch ==
    [pc |-> "idle", roleMapping |-> FALSE, attrMapping |-> FALSE, seen |-> <<>>,
     user |-> [f \in LdapFields |-> ""], roles |-> <<>>,
     bySwitch |-> {}, byMapping |-> {}]

\* lines 188-233: the search, the role mapping table, `var user LdapUser`
GetLdapUsers_Entry(roleMapping, attrMapping) ==
    /\ search.pc \in {"idle", "done"}
    /\ search' = [IdleSearch EXCEPT !.pc = "attrs", !.roleMapping = roleMapping,
                                    !.attrMapping = attrMapping]
    /\ UNCHANGED <<loginVars, mailVars, sync, other>>

\* variant: the role rules are evaluated after the attribute mapping test
GetLdapUsers_Attribute_RolesAfterMapping(attribute) ==
    /\ search.pc = "attrs" /\ Len(search.seen) < MaxAttrs
    /\ LET s1 == [search EXCEPT !.seen = Append(@, attribute)]
           s2 == [s1 EXCEPT !.roles =
                      IF search.roleMapping /\ ~search.attrMapping
                      THEN @ \o RolesOfValues(attribute.name, attribute.values)
                      ELSE @]
           mapped == AttributeMappingField(attribute.name)
           fixed == FixedField(attribute.name)
       IN search' =
            IF search.attrMapping THEN
                IF mapped = "" THEN s2
                ELSE [s2 EXCEPT !.user[mapped] = attribute.values[1],
                                !.byMapping = @ \cup {mapped}]
            ELSE IF fixed = "" THEN s2
            ELSE [s2 EXCEPT !.user[fixed] = attribute.values[1],
                            !.bySwitch = @ \cup {fixed}]
    /\ UNCHANGED <<loginVars, mailVars, sync, other>>

\* lines 234-289: the body of `for _, attribute := range entry.Attributes`
GetLdapUsers_Attribute(attribute) ==
    /\ search.pc = "attrs" /\ Len(search.seen) < MaxAttrs
    /\ LET s1 == [search EXCEPT !.seen = Append(@, attribute)]
           s2 == [s1 EXCEPT !.roles =
                      IF search.roleMapping
                      THEN @ \o RolesOfValues(attribute.name, attribute.values)
                      ELSE @]
           mapped == AttributeMappingField(attribute.name)
           fixed == FixedField(attribute.name)
       IN search' =
            IF search.attrMapping THEN
                IF mapped = "" THEN s2
                ELSE [s2 EXCEPT !.user[mapped] = attribute.values[1],
                                !.byMapping = @ \cup {mapped}]
            ELSE IF fixed = "" THEN s2
            ELSE [s2 EXCEPT !.user[fixed] = attribute.values[1],
                            !.bySwitch = @ \cup {fixed}]
    /\ UNCHANGED <<loginVars, mailVars, sync, other>>

\* line 289: ldapUsers = append(ldapUsers, user)
GetLdapUsers_Append ==
    /\ search.pc = "attrs"
    /\ search' = [search EXCEPT !.pc = "done"]
    /\ UNCHANGED <<loginVars, mailVars, sync, other>>

(***************************************************************************)
(* Directory synchronization (SyncLdapUsers) followed statement by         *)
(* statement, so that a run can stop between two writes.  The fields run,  *)
(* ended, endErr, endFailed, store0, lookups, created, wrote, begun and    *)
(* existIdx are history only: the code never reads them.                   *)
(***************************************************************************)
\* two results of randstr.Hex(6); the library is not part of the sources, the
\* tokens stand for its results and nothing is derived from their length
HexSuffixes == {"a1b2c3", "d4e5f6"}

IdleSync ==
    [pc |-> "idle", run |-> 0, batch |-> <<>>, roleMapping |-> FALSE,
     i |-> 0, existUsers |-> <<>>, failedUsers |-> <<>>, err |-> "",
     found |-> FALSE, name |-> "", hit |-> "",
     ended |-> "", endErr |-> "", endFailed |-> FALSE,
     store0 |-> NoStore, lookups |-> 0, created |-> {}, wrote |-> {},
     begun |-> {}, existIdx |-> {}]

SyncCtx == Ctx(users, idps, roles, sessionDb, sess)

SyncRunning == sync.pc \in {"lookup", "create", "link", "roles"}

SyncUuids == {sync.batch[k].uuid : k \in 1..Len(sync.batch)}

\* the loop moves on to the next record
SyncNextRecord(s) ==
    [s EXCEPT !.pc = "lookup", !.i = @ + 1, !.found = FALSE, !.name = "",
              !.hit = ""]

\* lines 357-383: the uuids of the batch, the organization, the LDAP source
SyncLdapUsers_Start(syncUsers, roleMapping) ==
    /\ sync.pc = "idle"
    /\ sync.run < MaxRuns
    /\ sync.run > 0 => (syncUsers = sync.batch /\ roleMapping = sync.roleMapping)
    /\ sync' = [IdleSync EXCEPT
                  !.pc = "lookup", !.run = sync.run + 1, !.batch = syncUsers,
                  !.roleMapping = roleMapping, !.i = 1,
                  !.ended = sync.ended, !.endErr = sync.endErr,
                  !.endFailed = sync.endFailed,
                  !.store0 = Store(users, idps, roles, sessionDb)]
    /\ UNCHANGED <<loginVars, mailVars, other, search>>

\* variant: the creation is not skipped for a record found to exist
SyncLdapUsers_Lookup_AlwaysCreate(lookupErr, hit, rnd) ==
    /\ sync.pc = "lookup" /\ sync.i <= Len(sync.batch)
    /\ hit \in LdapNamePicks(SyncCtx, sync.batch[sync.i])
    /\ LET syncUser == sync.batch[sync.i]
           found == syncUser.uuid \in GetExistUuids(SyncCtx, Org, SyncUuids)
           s1 == [sync EXCEPT !.lookups = @ + 1, !.begun = @ \cup {sync.i}]
       IN sync' =
            IF lookupErr
            THEN [s1 EXCEPT !.pc = "done", !.existUsers = <<>>,
                            !.failedUsers = <<>>, !.err = "lookup failed"]
            ELSE [s1 EXCEPT
                    !.pc = "create",
                    !.found = found,
                    !.existUsers = IF found THEN Append(@, syncUser) ELSE @,
                    !.existIdx = IF found THEN @ \cup {sync.i} ELSE @,
                    !.hit = hit,
                    !.name = LdapUserNameFor(SyncCtx, syncUser, rnd, hit)]
    /\ UNCHANGED <<loginVars, mailVars, other, search>>

\* lines 385-404: GetExistUuids, the classification, buildLdapUserName
SyncLdapUsers_Lookup(lookupErr, hit, rnd) ==
    /\ sync.pc = "lookup" /\ sync.i <= Len(sync.batch)
    /\ hit \in LdapNamePicks(SyncCtx, sync.batch[sync.i])
    /\ LET syncUser == sync.batch[sync.i]
           found == syncUser.uuid \in GetExistUuids(SyncCtx, Org, SyncUuids)
           s1 == [sync EXCEPT !.lookups = @ + 1, !.begun = @ \cup {sync.i}]
       IN sync' =
            IF lookupErr
            THEN [s1 EXCEPT !.pc = "done", !.existUsers = <<>>,
                            !.failedUsers = <<>>, !.err = "lookup failed"]
            ELSE [s1 EXCEPT
                    !.pc = IF found THEN "roles" ELSE "create",
                    !.found = found,
                    !.existUsers = IF found THEN Append(@, syncUser) ELSE @,
                    !.existIdx = IF found THEN @ \cup {sync.i} ELSE @,
                    !.hit = hit,
                    !.name = LdapUserNameFor(SyncCtx, syncUser, rnd, hit)]
    /\ UNCHANGED <<loginVars, mailVars, other, search>>

\* variant: a record whose insert reported nothing inserted is not collected
SyncLdapUsers_AddUser_DropsFailed(outcome) ==
    /\ sync.pc = "create"
    /\ LET syncUser == sync.batch[sync.i]
           name == sync.name
           newUser == [BaseUser(name) EXCEPT
                           !.owner = Org, !.email = syncUser.email,
                           !.phone = syncUser.mobile, !.tag = LdapTag,
                           !.ldap = syncUser.uuid, !.password = ""]
           s1 == [sync EXCEPT !.wrote = @ \cup {<<sync.i, "AddUser">>}]
           duplicate == name \notin Names \/ users[name].present
       IN
       IF outcome = "unaffected" THEN
           /\ sync' = SyncNextRecord(s1)
           /\ UNCHANGED users
       ELSE IF outcome = "err" \/ duplicate THEN
           /\ sync' = [s1 EXCEPT !.pc = "done", !.existUsers = <<>>,
                                 !.failedUsers = <<>>, !.err = "insert failed"]
           /\ UNCHANGED users
       ELSE
           /\ users' = AddUser(SyncCtx, newUser).users
           /\ sync' = [s1 EXCEPT !.pc = "link", !.created = @ \cup {name}]
    /\ UNCHANGED <<idps, roles, sessionDb, sess, req, mailVars, other, search>>

\* lines 406-442: the new user and AddUser
SyncLdapUsers_AddUser(outcome) ==
    /\ sync.pc = "create"
    /\ LET syncUser == sync.batch[sync.i]
           name == sync.name
           newUser == [BaseUser(name) EXCEPT
                           !.owner = Org, !.email = syncUser.email,
                           !.phone = syncUser.mobile, !.tag = LdapTag,
                           !.ldap = syncUser.uuid, !.password = ""]
           s1 == [sync EXCEPT !.wrote = @ \cup {<<sync.i, "AddUser">>}]
           duplicate == name \notin Names \/ users[name].present
       IN
       IF outcome = "unaffected" THEN
           /\ sync' = SyncNextRecord([s1 EXCEPT
                            !.failedUsers = Append(@, syncUser)])
           /\ UNCHANGED users
       ELSE IF outcome = "err" \/ duplicate THEN
           /\ sync' = [s1 EXCEPT !.pc = "done", !.existUsers = <<>>,
                                 !.failedUsers = <<>>, !.err = "insert failed"]
           /\ UNCHANGED users
       ELSE
           /\ users' = AddUser(SyncCtx, newUser).users
           /\ sync' = [s1 EXCEPT !.pc = "link", !.created = @ \cup {name}]
    /\ UNCHANGED <<idps, roles, sessionDb, sess, req, mailVars, other, search>>

\* lines 444-455: the identity link of the new user
SyncLdapUsers_AddUserIdProvider(ok) ==
    /\ sync.pc = "link"
    /\ LET syncUser == sync.batch[sync.i]
           s1 == [sync EXCEPT !.wrote = @ \cup {<<sync.i, "AddUserIdProvider">>}]
       IN
       IF ok THEN
           /\ idps' = AddUserIdProvider(SyncCtx,
                          IdpRow("", LdapServerId, syncUser.uuid, sync.name, 0)).idps
           /\ sync' = [s1 EXCEPT !.pc = "roles"]
       ELSE
           /\ sync' = [s1 EXCEPT !.pc = "done", !.existUsers = <<>>,
                                 !.failedUsers = <<>>, !.err = "link failed"]
           /\ UNCHANGED idps
    /\ UNCHANGED <<users, roles, sessionDb, sess, req, mailVars, other, search>>

\* lines 457-468: GetLdap and, with role mapping enabled, SyncRoles
SyncLdapUsers_SyncRoles(outcome) ==
    /\ sync.pc = "roles"
    /\ outcome = "rolesErr" => sync.roleMapping
    /\ IF outcome = "ldapErr" THEN
           /\ sync' = [sync EXCEPT !.pc = "done", !.err = "ldap not found"]
           /\ UNCHANGED roles
       ELSE IF ~sync.roleMapping THEN
           /\ sync' = SyncNextRecord(sync)
           /\ UNCHANGED roles
       ELSE IF outcome = "rolesErr" THEN
           /\ sync' = [sync EXCEPT !.pc = "done", !.err = "role sync failed",
                                   !.wrote = @ \cup {<<sync.i, "SyncRoles">>}]
           /\ UNCHANGED roles
       ELSE
           /\ roles' = AddRolesToUser(SyncCtx, sync.name, {"member"}).roles
           /\ sync' = SyncNextRecord([sync EXCEPT
                            !.wrote = @ \cup {<<sync.i, "SyncRoles">>}])
    /\ UNCHANGED <<users, idps, sessionDb, sess, req, mailVars, other, search>>

\* line 471: the loop is over
SyncLdapUsers_Return ==
    /\ sync.pc = "lookup" /\ sync.i > Len(sync.batch)
    /\ sync' = [sync EXCEPT !.pc = "done"]
    /\ UNCHANGED <<loginVars, mailVars, other, search>>

\* the caller has the result; what is kept is how the run ended
SyncEnd ==
    /\ sync.pc = "done"
    /\ sync' = [IdleSync EXCEPT
                  !.run = sync.run, !.batch = sync.batch,
                  !.roleMapping = sync.roleMapping, !.ended = "returned",
                  !.endErr = sync.err,
                  !.endFailed = sync.failedUsers # <<>>]
    /\ UNCHANGED <<loginVars, mailVars, other, search>>

\* the process stops between two statements of a run
SyncCrash ==
    /\ SyncRunning
    /\ sync' = [IdleSync EXCEPT
                  !.run = sync.run, !.batch = sync.batch,
                  !.roleMapping = sync.roleMapping, !.ended = "crashed"]
    /\ UNCHANGED <<loginVars, mailVars, other, search>>

\* two calls of SyncLdapUsers in progress at once: the scheduler suspends
\* the executing call between two statements and resumes the other one
SyncSwitch ==
    /\ sync' = other /\ other' = sync
    /\ sync # other
    /\ UNCHANGED <<loginVars, mailVars, search>>

(***************************************************************************)
(* Scan-event mailbox: HandleOfficialAccountEvent (post) and               *)
(* GetWebhookEventType (poll).  Each worker serves one request at a time;  *)
(* a step is one statement between two points where another worker may    *)
(* run.  "scan" is history only: the handlers never read it.               *)
(***************************************************************************)
Workers == {"w1", "w2"}

Events == {"", "SCAN", "subscribe"}

EventKeys == {"", "qr1"}

\* request bodies: unreadable / not XML, or the parsed MsgType-Event-EventKey
Bodies ==
    {[ok |-> FALSE, event |-> "", eventKey |-> ""]}
      \cup [ok : {TRUE}, event : Events, eventKey : EventKeys]

IdleWorker ==
    [pc |-> "idle", handler |-> "", event |-> "", eventKey |-> "",
     data |-> "", out |-> "", before |-> "", expect |-> "", unread |-> 0,
     id |-> 0]

InitMailbox ==
    /\ wechatScanType = ""
    /\ lock = {}
    /\ web = [w \in Workers |-> IdleWorker]
    /\ scan = [posts |-> 0, slotId |-> 0, latest |-> "", unread |-> 0,
               returned |-> {}, twice |-> FALSE]

\* ioutil.ReadAll and xml.Unmarshal: a bad body is answered before the lock
HandleOfficialAccountEvent_Parse(w, body) ==
    /\ web[w].pc = "idle"
    /\ scan.posts < MaxPosts
    /\ web' = [web EXCEPT ![w] =
                 IF body.ok
                 THEN [IdleWorker EXCEPT !.pc = "lock", !.handler = "post",
                                         !.id = scan.posts + 1,
                                         !.event = body.event,
                                         !.eventKey = body.eventKey]
                 ELSE [IdleWorker EXCEPT !.pc = "return", !.handler = "post",
                                         !.out = "bad request"]]
    /\ scan' = [scan EXCEPT !.posts = @ + 1]
    /\ UNCHANGED <<wechatScanType, lock>>

\* lock.Lock()
HandleOfficialAccountEvent_Lock(w) ==
    /\ web[w].pc = "lock" /\ web[w].handler = "post"
    /\ lock = {}
    /\ lock' = {w}
    /\ web' = [web EXCEPT ![w].pc = "cs"]
    /\ UNCHANGED <<wechatScanType, scan>>

\* variant: the slot is replaced whatever the EventKey
HandleOfficialAccountEvent_Write_AnyKey(w) ==
    /\ web[w].pc = "cs" /\ web[w].handler = "post"
    /\ wechatScanType' = web[w].event
    /\ web' = [web EXCEPT ![w].pc = "return", ![w].out = "written",
                          ![w].before = wechatScanType]
    /\ scan' = [scan EXCEPT !.slotId = web[w].id,
                            !.latest = web[w].event,
                            !.unread = @ + 1]
    /\ UNCHANGED lock

\* if data.EventKey != "" { wechatScanType = data.Event; WriteString("") }
HandleOfficialAccountEvent_Write(w) ==
    /\ web[w].pc = "cs" /\ web[w].handler = "post"
    /\ IF web[w].eventKey # ""
       THEN /\ wechatScanType' = web[w].event
            /\ web' = [web EXCEPT ![w].pc = "return", ![w].out = "written",
                                  ![w].before = wechatScanType]
            /\ scan' = [scan EXCEPT !.slotId = web[w].id,
                                    !.latest = web[w].event,
                                    !.unread = @ + 1]
       ELSE /\ web' = [web EXCEPT ![w].pc = "return",
                                  ![w].before = wechatScanType]
            /\ UNCHANGED <<wechatScanType, scan>>
    /\ UNCHANGED lock

\* variant: the poll takes the read lock (lock.RLock()), shared among polls
GetWebhookEventType_Lock_RLock(w) ==
    /\ web[w].pc = "idle"
    /\ \A h \in lock : web[h].handler = "poll"
    /\ lock' = lock \cup {w}
    /\ web' = [web EXCEPT ![w] = [IdleWorker EXCEPT !.pc = "cs",
                                                    !.handler = "poll"]]
    /\ UNCHANGED <<wechatScanType, scan>>

\* lock.Lock()
GetWebhookEventType_Lock(w) ==
    /\ web[w].pc = "idle"
    /\ lock = {}
    /\ lock' = {w}
    /\ web' = [web EXCEPT ![w] = [IdleWorker EXCEPT !.pc = "cs",
                                                    !.handler = "poll"]]
    /\ UNCHANGED <<wechatScanType, scan>>

\* resp := &Response{Status: "ok", Msg: "", Data: wechatScanType}
GetWebhookEventType_Read(w) ==
    /\ web[w].pc = "cs" /\ web[w].handler = "poll"
    /\ web' = [web EXCEPT ![w].pc = "clear", ![w].data = wechatScanType,
                          ![w].expect = scan.latest,
                          ![w].unread = scan.unread]
    /\ scan' = [scan EXCEPT
                  !.latest = "", !.unread = 0,
                  !.returned = IF scan.slotId = 0 THEN @
                               ELSE @ \cup {scan.slotId},
                  !.twice = @ \/ (scan.slotId # 0
                                  /\ scan.slotId \in scan.returned)]
    /\ UNCHANGED <<wechatScanType, lock>>

\* wechatScanType = ""; c.ServeJSON()
GetWebhookEventType_Clear(w) ==
    /\ web[w].pc = "clear" /\ web[w].handler = "poll"
    /\ wechatScanType' = ""
    /\ web' = [web EXCEPT ![w].pc = "return", ![w].out = "ok"]
    /\ scan' = [scan EXCEPT !.slotId = 0]
    /\ UNCHANGED lock

\* the handler returns: the deferred lock.Unlock() runs, the worker is free
Unlock(w) ==
    /\ web[w].pc = "return"
    /\ lock' = lock \ {w}
    /\ web' = [web EXCEPT ![w] = IdleWorker]
    /\ UNCHANGED <<wechatScanType, scan>>

(***************************************************************************)
(* Initial storage: alice with one of a few profiles, bob linked to the    *)
(* external subject s2, nobody signed in                                   *)
(***************************************************************************)
Alice == [BaseUser("alice") EXCEPT !.email = "alice@x", !.phone = "555"]
AliceMfa == [Alice EXCEPT !.mfa = TRUE, !.otp = "123456", !.recovery = {"rc1"}]
AlicePwd == [Alice EXCEPT !.pwdChange = TRUE]
AliceMfaPwd == [AliceMfa EXCEPT !.pwdChange = TRUE]
AliceForbidden == [Alice EXCEPT !.isForbidden = TRUE]
AliceDeleted == [Alice EXCEPT !.isDeleted = TRUE]
AliceGuest == [Alice EXCEPT !.tag = "guest"]
AliceAdmin == [Alice EXCEPT !.tag = "guest", !.isAdmin = TRUE]
AliceGlobal == [Alice EXCEPT !.tag = "guest", !.owner = "built-in"]
AliceInvited == [Alice EXCEPT !.type = "invited-user"]
AlicePaid(subs) == [Alice EXCEPT !.type = "paid-user", !.subs = subs]
AliceLdap == [Alice EXCEPT !.ldap = "uuid-alice", !.password = ""]

Bob == [BaseUser("bob") EXCEPT !.link = "s2", !.props = "s2", !.phone = "777"]

InitIdps(alice) ==
    {IdpRow(ProviderName, "", "bob", "bob", 0)}
        \cup (IF alice.link # ""
              THEN {IdpRow(ProviderName, "", "alice", "alice", 0)} ELSE {})
        \cup (IF alice.ldap # ""
              THEN {IdpRow("", LdapServerId, alice.ldap, "alice", 0)} ELSE {})

InitWith(profiles, links) ==
    /\ \E a \in profiles, l \in links :
          LET alice == [a EXCEPT !.link = l, !.props = l] IN
          /\ users = [n \in Names |->
                         IF n = "alice" THEN alice
                         ELSE IF n = "bob" THEN Bob ELSE NoUser]
          /\ idps = InitIdps(alice)
    /\ roles = {}
    /\ sessionDb = [n \in Names \cup {"/"} |-> 0]
    /\ sess = [user |-> "", mfa |-> "", cp |-> ""]
    /\ req = IdleReq
    /\ InitMailbox
    /\ sync = IdleSync /\ other = IdleSync /\ search = IdleSearch

(***************************************************************************)
(* Input sets                                                              *)
(***************************************************************************)
WithHL(in, h) ==
    [in EXCEPT !.type = h.type, !.cm = h.cm, !.issue = h.issue, !.perm = h.perm,
               !.tags = h.tags, !.bind = h.bind, !.service = h.service,
               !.grantTypes = h.grantTypes, !.pricing = h.pricing]

HLDef ==
    [type |-> ResponseTypeLogin, cm |-> "", issue |-> "ok", perm |-> "allowed",
     tags |-> {}, bind |-> FALSE, service |-> "",
     grantTypes |-> {ResponseTypeToken, ResponseTypeIdToken}, pricing |-> FALSE]

PwdAlice(p) == [DefIn EXCEPT !.username = "alice", !.password = p]

MfaIn ==
    {[DefIn EXCEPT !.passcode = "123456"],
     [DefIn EXCEPT !.passcode = "000000"],
     [DefIn EXCEPT !.passcode = "123456", !.mfaTypeOk = FALSE],
     [DefIn EXCEPT !.recoveryCode = "rc1"],
     [DefIn EXCEPT !.recoveryCode = "bad"],
     [DefIn EXCEPT !.passcode = "123456", !.appExists = FALSE],
     DefIn}

PlainIn == {DefIn, [DefIn EXCEPT !.appExists = FALSE]}

ProvBase == [DefIn EXCEPT !.provider = ProviderName, !.method = "signup"]

SetPasswordReq == \E n \in Names : SetPassword(n)

(***************************************************************************)
(* Spec: the step-up gate (MFA, forced password change) on every branch    *)
(***************************************************************************)
StepUpProfiles ==
    {Alice, AliceMfa, AlicePwd, AliceMfaPwd,
     [AliceLdap EXCEPT !.pwdChange = TRUE]}

StepUpHL == {HLDef, [HLDef EXCEPT !.perm = "denied"]}

StepUpPwdIn ==
    {PwdAlice("pw"), PwdAlice("bad"), PwdAlice(""),
     [PwdAlice("") EXCEPT !.codeOk = FALSE],
     [PwdAlice("pw") EXCEPT !.orgMfa = TRUE],
     [PwdAlice("pw") EXCEPT !.signinMethod = "LDAP"],
     [PwdAlice("pw") EXCEPT !.signinMethod = "LDAP", !.ldapPwOk = FALSE],
     [PwdAlice("pw") EXCEPT !.pwdWithLdap = TRUE]}

StepUpProvIn ==
    {[ProvBase EXCEPT !.info = InfoAlice],
     [ProvBase EXCEPT !.info = InfoAlice, !.category = "SAML"],
     [ProvBase EXCEPT !.info = InfoCarol, !.method = "signin"]}

Init == InitWith(StepUpProfiles, {"s1"})

LoginPasswordReq ==
    \E f \in StepUpPwdIn, h \in StepUpHL : ServeLogin(WithHL(f, h), "password")

LoginProviderReq ==
    \E f \in StepUpProvIn, h \in StepUpHL : ServeLogin(WithHL(f, h), "provider")

LoginMfaReq ==
    \E f \in MfaIn, h \in StepUpHL : ServeLogin(WithHL(f, h), "mfa")

LoginChangePasswordReq ==
    \E f \in PlainIn, h \in StepUpHL : ServeLogin(WithHL(f, h), "changePassword")

LoginQuickReq ==
    \E f \in PlainIn, h \in StepUpHL : ServeLogin(WithHL(f, h), "quick")

Next ==
    \/ LoginPasswordReq
    \/ LoginProviderReq
    \/ LoginMfaReq
    \/ LoginChangePasswordReq
    \/ LoginQuickReq
    \/ SetPasswordReq
    \/ Logout
    \/ EndRequest

Spec == Init /\ [][Next]_vars

(***************************************************************************)
(* SpecDone: completion in HandleLoggedIn for every response type          *)
(***************************************************************************)
DoneProfiles ==
    {Alice, AliceMfa, AliceGuest, AliceAdmin, AliceGlobal, AliceInvited,
     AlicePaid({}), AlicePaid({"Pending"}), AlicePaid({"Active"})}

DoneHL ==
    {HLDef,
     [HLDef EXCEPT !.bind = TRUE],
     [HLDef EXCEPT !.perm = "denied"],
     [HLDef EXCEPT !.perm = "err"],
     [HLDef EXCEPT !.tags = {"staff"}],
     [HLDef EXCEPT !.pricing = TRUE],
     [HLDef EXCEPT !.type = ResponseTypeCode],
     [HLDef EXCEPT !.type = ResponseTypeCode, !.cm = "S256", !.bind = TRUE],
     [HLDef EXCEPT !.type = ResponseTypeCode, !.cm = "null"],
     [HLDef EXCEPT !.type = ResponseTypeCode, !.cm = "plain"],
     [HLDef EXCEPT !.type = ResponseTypeCode, !.cm = "s256", !.bind = TRUE],
     [HLDef EXCEPT !.type = ResponseTypeCode, !.issue = "empty", !.bind = TRUE],
     [HLDef EXCEPT !.type = ResponseTypeCode, !.issue = "err"],
     [HLDef EXCEPT !.type = ResponseTypeToken],
     [HLDef EXCEPT !.type = ResponseTypeToken, !.grantTypes = {ResponseTypeIdToken}],
     [HLDef EXCEPT !.type = ResponseTypeIdToken, !.issue = "empty"],
     [HLDef EXCEPT !.type = ResponseTypeSaml, !.bind = TRUE],
     [HLDef EXCEPT !.type = ResponseTypeSaml, !.issue = "err"],
     [HLDef EXCEPT !.type = ResponseTypeCas],
     [HLDef EXCEPT !.type = ResponseTypeCas, !.service = "svc", !.bind = TRUE],
     [HLDef EXCEPT !.type = ResponseTypeCas, !.service = "svc", !.issue = "err"],
     [HLDef EXCEPT !.type = ResponseTypeCas, !.service = "svc", !.issue = "err",
                   !.bind = TRUE],
     [HLDef EXCEPT !.type = "device"]}

DonePwdIn ==
    {PwdAlice("pw"), PwdAlice("bad"),
     [PwdAlice("pw") EXCEPT !.autoSignin = TRUE],
     [PwdAlice("pw") EXCEPT !.sessionErr = TRUE]}

DoneProvIn ==
    {[ProvBase EXCEPT !.info = InfoAlice],
     [ProvBase EXCEPT !.info = InfoAlice, !.sessionErr = TRUE]}

DoneMfaIn == {[DefIn EXCEPT !.passcode = "123456"]}

InitDone == InitWith(DoneProfiles, {"s1"})

DonePasswordReq ==
    \E f \in DonePwdIn, h \in DoneHL : ServeLogin(WithHL(f, h), "password")

DoneProviderReq ==
    \E f \in DoneProvIn, h \in DoneHL : ServeLogin(WithHL(f, h), "provider")

DoneMfaReq ==
    \E f \in DoneMfaIn, h \in DoneHL : ServeLogin(WithHL(f, h), "mfa")

DoneQuickReq ==
    \E h \in DoneHL : ServeLogin(WithHL(DefIn, h), "quick")

NextDone ==
    \/ DonePasswordReq
    \/ DoneProviderReq
    \/ DoneMfaReq
    \/ DoneQuickReq
    \/ Logout
    \/ EndRequest

SpecDone == InitDone /\ [][NextDone]_vars

(***************************************************************************)
(* SpecCaptcha: the failed-attempt counter and the CAPTCHA gate            *)
(***************************************************************************)
CaptchaProfiles == {Alice, AlicePwd, AliceLdap}

CaptchaPwdIn ==
    {[PwdAlice(p) EXCEPT !.captcha = k] :
        p \in {"pw", "bad"}, k \in {"human", "robot", "err"}}
      \cup {[PwdAlice("bad") EXCEPT !.captchaErr = TRUE],
            [PwdAlice("bad") EXCEPT !.username = "carol"],
            [PwdAlice("bad") EXCEPT !.enablePassword = FALSE],
            [PwdAlice("pw") EXCEPT !.signinMethod = "LDAP", !.captcha = "robot"],
            [PwdAlice("pw") EXCEPT !.type = ResponseTypeCode, !.captcha = "robot"],
            [PwdAlice("") EXCEPT !.captcha = "robot"]}

InitCaptcha == InitWith(CaptchaProfiles, {""})

CaptchaPasswordReq == \E f \in CaptchaPwdIn : ServeLogin(f, "password")

GetCaptchaStatusReq == \E userId \in {"alice", "carol"} : GetCaptchaStatus(userId)

NextCaptcha ==
    \/ CaptchaPasswordReq
    \/ GetCaptchaStatusReq
    \/ SetPasswordReq
    \/ Logout
    \/ EndRequest

SpecCaptcha == InitCaptcha /\ [][NextCaptcha]_vars

(***************************************************************************)
(* SpecProvider: the external-provider branch (state check, sign-up, link) *)
(***************************************************************************)
ProviderProfiles == {Alice, AliceForbidden, AliceDeleted, AliceLdap}

ProviderHL ==
    {HLDef, [HLDef EXCEPT !.tags = {"staff"}], [HLDef EXCEPT !.perm = "denied"],
     [HLDef EXCEPT !.type = ResponseTypeCode, !.cm = "plain"],
     [HLDef EXCEPT !.type = ResponseTypeToken, !.grantTypes = {ResponseTypeIdToken}]}

\* forms that end before a user is looked up
ProviderGateIn ==
    {[ProvBase EXCEPT !.category = k, !.state = st] :
        k \in {"OAuth", "Web3", "SAML"}, st \in {AppName, "evil", ""}}
      \cup {[ProvBase EXCEPT !.token = "err"],
            [ProvBase EXCEPT !.token = "invalid"],
            [ProvBase EXCEPT !.userInfoErr = TRUE],
            [ProvBase EXCEPT !.jwt = "bad"],
            [ProvBase EXCEPT !.category = "SAML", !.samlErr = TRUE],
            [ProvBase EXCEPT !.provVisible = FALSE],
            [ProvBase EXCEPT !.appExists = FALSE, !.state = "evil"]}

ProviderSignupIn ==
    {[ProvBase EXCEPT !.info = InfoAlice, !.now = MaxTime],
     [ProvBase EXCEPT !.info = InfoAlice, !.linkWithEmail = TRUE],
     [ProvBase EXCEPT !.info = InfoCarol],
     [ProvBase EXCEPT !.info = InfoCarol, !.roleMapping = TRUE],
     [ProvBase EXCEPT !.info = InfoCarol, !.roleMapping = TRUE, !.roleErr = TRUE],
     [ProvBase EXCEPT !.info = InfoCarol, !.category = "SAML"],
     [ProvBase EXCEPT !.info = InfoCarol, !.internalSignUp = FALSE, !.idpSignUp = FALSE],
     [ProvBase EXCEPT !.info = InfoCarol, !.canSignUp = FALSE],
     [ProvBase EXCEPT !.info = InfoAlice, !.canSignUp = FALSE],
     [ProvBase EXCEPT !.info = InfoCarol, !.addUser = "unaffected"],
     [ProvBase EXCEPT !.info = InfoCarol, !.addUser = "err"]}

\* sign-ups that exercise the lookups by subject, email and phone
ProviderContactIn ==
    {[ProvBase EXCEPT !.info = InfoRobert, !.now = MaxTime],
     [ProvBase EXCEPT !.info = InfoCarolPhone, !.linkWithEmail = TRUE],
     [ProvBase EXCEPT !.info = InfoCarolContacts, !.linkWithEmail = TRUE],
     [ProvBase EXCEPT !.info = InfoReturning, !.linkWithEmail = TRUE]}

ProviderSigninIn ==
    {[ProvBase EXCEPT !.method = "signin", !.info = i, !.category = k] :
        i \in {InfoAlice, InfoRobert, InfoCarol}, k \in {"OAuth", "SAML"}}

ProviderPwdIn ==
    {PwdAlice("pw"), [PwdAlice("pw") EXCEPT !.signinMethod = "LDAP", !.now = MaxTime]}

InitProvider == InitWith(ProviderProfiles, {"", "s1"})

ProviderGateReq == \E f \in ProviderGateIn : ServeLogin(f, "provider")

ProviderSignupReq ==
    \E f \in ProviderSignupIn, h \in ProviderHL : ServeLogin(WithHL(f, h), "provider")

ProviderContactReq ==
    \E f \in ProviderContactIn : ServeLogin(WithHL(f, HLDef), "provider")

ProviderSigninReq == \E f \in ProviderSigninIn : ServeLogin(f, "provider")

ProviderPasswordReq ==
    \E f \in ProviderPwdIn, h \in ProviderHL : ServeLogin(WithHL(f, h), "password")

NextProvider ==
    \/ ProviderGateReq
    \/ ProviderSignupReq
    \/ ProviderContactReq
    \/ ProviderSigninReq
    \/ ProviderPasswordReq
    \/ Logout
    \/ EndRequest

SpecProvider == InitProvider /\ [][NextProvider]_vars

(***************************************************************************)
(* Specification SpecMailbox: the webhook handlers on concurrent workers.  *)
(***************************************************************************)
InitMailboxOnly == InitWith({Alice}, {""})

NextMailbox ==
    \/ \E w \in Workers, body \in Bodies :
          HandleOfficialAccountEvent_Parse(w, body) /\ UNCHANGED <<loginVars, syncVars>>
    \/ \E w \in Workers :
          HandleOfficialAccountEvent_Lock(w) /\ UNCHANGED <<loginVars, syncVars>>
    \/ \E w \in Workers :
          HandleOfficialAccountEvent_Write(w) /\ UNCHANGED <<loginVars, syncVars>>
    \/ \E w \in Workers : GetWebhookEventType_Lock(w) /\ UNCHANGED <<loginVars, syncVars>>
    \/ \E w \in Workers : GetWebhookEventType_Read(w) /\ UNCHANGED <<loginVars, syncVars>>
    \/ \E w \in Workers : GetWebhookEventType_Clear(w) /\ UNCHANGED <<loginVars, syncVars>>
    \/ \E w \in Workers : Unlock(w) /\ UNCHANGED <<loginVars, syncVars>>

SpecMailbox == InitMailboxOnly /\ [][NextMailbox]_vars

(***************************************************************************)
(* Specification SpecSync: runs of SyncLdapUsers over a directory batch,   *)
(* with stops and re-runs, on a storage that may hold jdoe, jdoe_1001 and  *)
(* msmith already.                                                         *)
(***************************************************************************)
RecJdoe == LdapEntry("jdoe")

RecSmith == [LdapEntry("msmith") EXCEPT !.uidNumber = "1002"]

\* an entry without uid: the common name is the user name
RecKim == [LdapEntry("kim") EXCEPT !.uid = "", !.uidNumber = "1003"]

SyncBatches ==
    {<<RecJdoe>>, <<RecJdoe, RecSmith, RecKim>>, <<RecKim, RecKim>>}

\* a user synchronized from the directory entry of uuid
Synced(name, uuid) == [BaseUser(name) EXCEPT !.ldap = uuid, !.password = ""]

\* rows a user table may hold under the name jdoe
JdoeRows ==
    {NoUser, BaseUser("jdoe"), Synced("jdoe", RecJdoe.uuid),
     Synced("jdoe", "uuid-other")}

\* rows a user table may hold under the name jdoe_1001
JdoeNumberRows ==
    {NoUser, Synced("jdoe_1001", RecJdoe.uuid),
     Synced("jdoe_1001", "uuid-other2"),
     [BaseUser("jdoe_1001") EXCEPT !.owner = "built-in"]}

SmithRows == {NoUser, Synced("msmith", RecSmith.uuid)}

InitSync ==
    /\ \E j \in JdoeRows, jn \in JdoeNumberRows, m \in SmithRows :
          /\ ~(j.ldap = RecJdoe.uuid /\ jn.ldap = RecJdoe.uuid)
          /\ users = [n \in Names |->
                         IF n = "jdoe" THEN j
                         ELSE IF n = "jdoe_1001" THEN jn
                         ELSE IF n = "msmith" THEN m ELSE NoUser]
          /\ idps = {IdpRow("", LdapServerId, u.ldap, u.name, 0) :
                        u \in {x \in {j, jn, m} : x.present /\ x.ldap # ""}}
    /\ roles = {}
    /\ sessionDb = [n \in Names \cup {"/"} |-> 0]
    /\ sess = [user |-> "", mfa |-> "", cp |-> ""]
    /\ req = IdleReq
    /\ InitMailbox
    /\ sync = IdleSync /\ other = IdleSync /\ search = IdleSearch

NextSync ==
    \/ \E b \in SyncBatches, rm \in BOOLEAN : SyncLdapUsers_Start(b, rm)
    \/ \E e \in BOOLEAN, h \in Names \cup {""}, r \in HexSuffixes :
          SyncLdapUsers_Lookup(e, h, r)
    \/ \E o \in {"ok", "unaffected", "err"} : SyncLdapUsers_AddUser(o)
    \/ \E ok \in BOOLEAN : SyncLdapUsers_AddUserIdProvider(ok)
    \/ \E o \in {"ok", "ldapErr", "rolesErr"} : SyncLdapUsers_SyncRoles(o)
    \/ SyncLdapUsers_Return
    \/ SyncEnd
    \/ SyncCrash

SpecSync == InitSync /\ [][NextSync]_vars

(***************************************************************************)
(* Specification SpecSyncPair: two calls of SyncLdapUsers for the same     *)
(* owner and the same record, interleaved statement by statement.          *)
(***************************************************************************)
NextSyncPair ==
    \/ sync.run = 0 /\ SyncLdapUsers_Start(<<RecJdoe>>, FALSE)
    \/ \E h \in Names \cup {""}, r \in HexSuffixes :
          SyncLdapUsers_Lookup(FALSE, h, r)
    \/ \E o \in {"ok", "err"} : SyncLdapUsers_AddUser(o)
    \/ \E ok \in BOOLEAN : SyncLdapUsers_AddUserIdProvider(ok)
    \/ SyncLdapUsers_SyncRoles("ok")
    \/ SyncLdapUsers_Return
    \/ SyncEnd
    \/ SyncSwitch

SpecSyncPair == InitSync /\ [][NextSyncPair]_vars

(***************************************************************************)
(* Specification SpecSearch: GetLdapUsers over the attributes of an entry. *)
(***************************************************************************)
AttrNames == {"uid", "mail", "memberOf", "title"}

AttrValues == {<<"jdoe">>, <<"devs", "admins">>, <<"staff">>}

EntryAttributes == {[name |-> n, values |-> v] : n \in AttrNames, v \in AttrValues}

InitSearch == InitWith({Alice}, {""})

NextSearch ==
    \/ \E rm \in BOOLEAN, am \in BOOLEAN : GetLdapUsers_Entry(rm, am)
    \/ \E a \in EntryAttributes : GetLdapUsers_Attribute(a)
    \/ GetLdapUsers_Append

SpecSearch == InitSearch /\ [][NextSearch]_vars

(***************************************************************************)
(* Specification SpecLdapLogin: first logins of directory users that have  *)
(* no local account yet, against up to MaxLdaps configured servers.        *)
(***************************************************************************)
LdapIdOf(i) == "ldap" \o ToString(i)

LdapAnswers == {"down", "empty", "found"}

\* every configuration of 0..MaxLdaps servers with their answers
LdapConfigs ==
    UNION {{[i \in 1..n |-> [id |-> LdapIdOf(i), answer |-> a[i]]] :
                a \in [1..n -> LdapAnswers]} : n \in 0..MaxLdaps}

LdapLoginIn ==
    {[DefIn EXCEPT !.username = u, !.password = "pw", !.signinMethod = "LDAP",
                   !.ldaps = l, !.ldapId = f, !.ldapPwOk = k, !.addUser = a] :
        u \in {"kim", "jdoe"}, l \in LdapConfigs,
        f \in {""} \cup {LdapIdOf(i) : i \in 1..MaxLdaps},
        k \in BOOLEAN, a \in {"ok", "err", "unaffected"}}

InitLdapLogin == InitWith({Alice}, {""})

LdapLoginReq ==
    /\ sessionDb["kim"] + sessionDb["jdoe"] < MaxSessions
    /\ \E f \in LdapLoginIn : ServeLogin(f, "password")

NextLdapLogin ==
    \/ LdapLoginReq
    \/ Logout
    \/ EndRequest

SpecLdapLogin == InitLdapLogin /\ [][NextLdapLogin]_vars

(***************************************************************************)
(* Reading the trace of the served request                                 *)
(***************************************************************************)
Served(branch) == req.pc = "served" /\ req.handler = "Login" /\ req.branch = branch

EvArgs(op) == {req.log[i][2] : i \in {j \in 1..Len(req.log) : req.log[j][1] = op}}

EvCount(op) == Cardinality({i \in 1..Len(req.log) : req.log[i][1] = op})

\* users for whom HandleLoggedIn was entered in the served request
Completing == EvArgs("HandleLoggedIn") \cap Names

(***************************************************************************)
(* C1: on every entry branch of Login, a user with MFA enabled reaches     *)
(* HandleLoggedIn only if a passcode or a recovery code of that user was   *)
(* verified in the same session.                                           *)
(***************************************************************************)
C1_MfaBeforeCompletion ==
    req.pc = "served" =>
        \A n \in Completing : users[n].mfa => n \in req.mfaDone

(***************************************************************************)
(* C2: in the MFA branch a wrong passcode answers "OTP was wrong", leaves  *)
(* the MFA-pending marker and the session table as they were; a later      *)
(* request of the same session with the correct passcode passes the        *)
(* verification and goes on to completion (HandleLoggedIn, when the        *)
(* application exists and no password change is forced).                   *)
(***************************************************************************)
WrongOtpServed ==
    /\ Served("mfa") /\ req.in.passcode # "" /\ req.in.mfaTypeOk
    /\ users[req.pre.mfa].present /\ req.in.passcode # users[req.pre.mfa].otp

RightOtpAfterWrong ==
    /\ Served("mfa") /\ req.wasOtpWrong /\ req.in.mfaTypeOk
    /\ req.in.passcode = users[req.pre.mfa].otp

C2_WrongOtpKeepsMarker ==
    /\ WrongOtpServed =>
          /\ req.out = <<Resp("error", "OTP was wrong", "")>>
          /\ sess = req.pre
          /\ ~HasEv(req.log, "AddSession")
          /\ req.otpWrong
    /\ req.otpWrong => sess.mfa # ""
    /\ RightOtpAfterWrong =>
          /\ HasEv(req.log, "MfaVerified")
          /\ \A i \in 1..Len(req.out) : req.out[i].msg # "OTP was wrong"
          /\ (req.in.appExists /\ ~users[req.pre.mfa].pwdChange)
                => req.pre.mfa \in Completing

C2_Witness ==
    /\ RightOtpAfterWrong
    /\ EvArgs("AddSession") = {req.pre.mfa}
    /\ req.hl.status = "ok"

(***************************************************************************)
(* C3: a user whose password change is required never reaches              *)
(* HandleLoggedIn, whatever path verified the credentials.                 *)
(***************************************************************************)
C3_NoCompletionBeforePasswordChange ==
    req.pc = "served" =>
        \A n \in Completing : ~users[n].pwdChange

(***************************************************************************)
(* Completion: session entries and PKCE                                    *)
(***************************************************************************)
LoginServed == req.pc = "served" /\ req.handler = "Login"

\* session entries appended by the served request, per user id
Appended(k) == sessionDb[k] - req.store.sessionDb[k]

TotalAppended ==
    Appended("alice") + Appended("bob") + Appended("carol")
        + Appended("alice_r1") + Appended("/")

\* a password login of an existing, unlocked, non-MFA user of normal type
\* with the right password, to an application that admits the user
PlainPasswordLogin ==
    /\ Served("password")
    /\ req.in.type = ResponseTypeLogin /\ req.in.password # ""
    /\ req.pre.user = ""
    /\ req.in.appExists /\ req.in.enablePassword
    /\ req.in.signinMethod = "Password" /\ ~req.in.captchaErr
    /\ ~req.in.orgMfa /\ req.in.perm = "allowed" /\ req.in.tags = {}
    /\ LET u == req.store.users[req.in.username] IN
          /\ u.present /\ ~u.isDeleted /\ ~u.isForbidden /\ u.ldap = ""
          /\ u.password = req.in.password /\ u.wrong < SigninWrongTimesLimit
          /\ ~u.mfa /\ ~u.pwdChange /\ u.type = "normal-user"

\* C4: a HandleLoggedIn call that returns status ok appends exactly one
\* session entry, for the user it completed; a call that ends in a rejection,
\* an error status or a plan selection appends none; a password login of an
\* existing non-MFA user with response type login answers ok with the user
\* id as data and appends one entry.
C4_OneSessionEntryPerCompletion ==
    LoginServed =>
        /\ EvCount("HandleLoggedIn") <= 1
        /\ req.hl.status = "ok" =>
              /\ TotalAppended = 1
              /\ \A n \in Completing : Appended(n) = 1
        /\ req.hl.status # "ok" => TotalAppended = 0
        /\ PlainPasswordLogin =>
              /\ req.hl = Resp("ok", "", req.in.username)
              /\ req.out = <<Resp("ok", "", req.in.username)>>
              /\ Appended(req.in.username) = 1

\* C4 where the session store accepts the entry
C4_WhenSessionStoreWorks == ~req.in.sessionErr => C4_OneSessionEntryPerCompletion

C4_Witness ==
    /\ PlainPasswordLogin /\ ~req.in.sessionErr
    /\ req.hl.status = "ok" /\ Appended("alice") = 1

\* the request reached HandleLoggedIn asking for an authorization code with
\* a code_challenge_method other than S256, null or empty
BadChallengeMethod ==
    /\ LoginServed /\ EvCount("HandleLoggedIn") = 1
    /\ req.in.type = ResponseTypeCode
    /\ req.in.cm \notin {"S256", "null", ""}

\* the user passes the checks HandleLoggedIn makes before the artifact
PassesGates(u, in) ==
    /\ u.type # "invited-user" /\ in.perm = "allowed"
    /\ (IsGlobalAdmin(u) \/ u.isAdmin \/ in.tags = {} \/ u.tag \in in.tags)
    /\ (u.type = "paid-user" => "Active" \in u.subs)

\* C5: with response type code and a code_challenge_method other than S256,
\* the empty string or null, GetOAuthCode is never called, no code is issued,
\* no session entry is appended, HandleLoggedIn returns no response and the
\* request is answered with the challenge-method rejection.
C5_BadChallengeMethodRejected ==
    BadChallengeMethod =>
        /\ ~HasEv(req.log, "GetOAuthCode")
        /\ \A i \in 1..Len(req.out) : req.out[i].data # "authcode"
        /\ TotalAppended = 0 /\ ~HasEv(req.log, "AddSession")
        /\ req.hl = NoResp
        /\ \A n \in Completing :
              PassesGates(req.store.users[n], req.in) =>
                  req.out[1] = Resp("error", "Challenge method should be S256", "")

C5_Witness ==
    /\ BadChallengeMethod /\ "alice" \in Completing
    /\ PassesGates(req.store.users["alice"], req.in)
    /\ req.out[1].msg = "Challenge method should be S256"

(***************************************************************************)
(* The CAPTCHA gate                                                        *)
(***************************************************************************)
\* the password request got as far as the decision whether CAPTCHA is needed
AtCaptchaGate ==
    /\ Served("password") /\ req.in.password # ""
    /\ ~(req.in.type = ResponseTypeLogin /\ req.pre.user # "")
    /\ req.in.appExists
    /\ (req.in.signinMethod = "Password" => req.in.enablePassword)
    /\ (req.in.signinMethod = "LDAP" => req.in.ldapEnabled)

\* the failed-attempt counter of the addressed user when the request came in
WrongBefore ==
    IF req.in.username \in Names /\ req.store.users[req.in.username].present
    THEN req.store.users[req.in.username].wrong ELSE -1

StoreUntouched ==
    /\ users = req.store.users /\ idps = req.store.idps
    /\ roles = req.store.roles /\ sessionDb = req.store.sessionDb

InternalError == Resp("error", "internal server error", "")

\* C7: in the password branch, when CAPTCHA is required the credential check
\* is reached only after a proof verified as human; an error while deciding
\* or while checking ends the request with an internal error, a proof that
\* is not human ends it with a rejection, both before any credential check.
C7_CaptchaBeforeCredentials ==
    AtCaptchaGate =>
        /\ EvCount("CheckToEnableCaptcha") = 1
        /\ HasEv(req.log, "CheckUserPassword") =>
              \/ EvArgs("CheckToEnableCaptcha") = {"false"}
              \/ /\ EvArgs("CheckToEnableCaptcha") = {"true"}
                 /\ EvArgs("VerifyCaptcha") = {"human"}
        /\ EvArgs("CheckToEnableCaptcha") = {"err"} =>
              /\ req.out = <<InternalError>> /\ StoreUntouched /\ sess = req.pre
              /\ ~HasEv(req.log, "CheckUserPassword")
        /\ EvArgs("CheckToEnableCaptcha") = {"true"} =>
              /\ req.in.captcha = "err" =>
                    /\ req.out = <<InternalError>> /\ StoreUntouched /\ sess = req.pre
                    /\ ~HasEv(req.log, "CheckUserPassword")
              /\ req.in.captcha = "robot" =>
                    /\ req.out = <<Resp("error", "Turing test failed.", "")>>
                    /\ StoreUntouched /\ sess = req.pre
                    /\ ~HasEv(req.log, "CheckUserPassword")
                    /\ ~HasEv(req.log, "CheckLdapUserPassword")

C7_Witness ==
    /\ AtCaptchaGate /\ EvArgs("CheckToEnableCaptcha") = {"true"}
    /\ req.in.captcha = "robot"
    /\ req.in.password = req.store.users[req.in.username].password
    /\ req.out[1].msg = "Turing test failed."

GetCaptchaStatusServed == req.pc = "served" /\ req.handler = "GetCaptchaStatus"

C8_WitnessUnknownUser ==
    /\ GetCaptchaStatusServed /\ WrongBefore = -1 /\ req.out[1].data = "false"

(***************************************************************************)
(* The provider branch                                                     *)
(***************************************************************************)
\* an OAuth or Web3 provider request whose state is neither the configured
\* authState nor the application name
StateMismatch ==
    /\ Served("provider") /\ req.in.appExists /\ req.in.provVisible
    /\ req.in.category \in {"OAuth", "Web3"}
    /\ req.in.state # AuthState /\ req.in.state # AppName

\* C6: for OAuth and Web3 providers a state that equals neither authState
\* nor the application name is rejected, and the request performs neither the
\* token exchange nor the user-info fetch; nothing is stored or signed in.
C6_StateMismatchRejected ==
    StateMismatch =>
        /\ req.out[Len(req.out)] = Resp("error", "State expected, but got another", "")
        /\ \A i \in 1..Len(req.out) : req.out[i].status # "ok"
        /\ ~HasEv(req.log, "GetToken") /\ ~HasEv(req.log, "GetUserInfo")
        /\ ~HasEv(req.log, "HandleLoggedIn")
        /\ StoreUntouched /\ sess = req.pre

C6_Witness == StateMismatch /\ req.in.state = "evil" /\ req.in.category = "Web3"

\* the provider request got the identity from the provider
Identified ==
    /\ Served("provider") /\ req.in.appExists /\ req.in.provVisible /\ ~req.in.orgErr
    /\ \/ req.in.category = "SAML" /\ ~req.in.samlErr
       \/ /\ req.in.category \in {"OAuth", "Web3"}
          /\ req.in.state \in {AuthState, AppName}
          /\ req.in.token = "valid" /\ ~req.in.userInfoErr
          /\ (req.in.category = "OAuth" => req.in.jwt # "bad")

\* local accounts the identity was linked to when the request came in
LinkedBefore ==
    {n \in Names : /\ req.store.users[n].present
                   /\ req.store.users[n].link = req.in.info.id}

\* a link request by a signed-in user for an identity of somebody else
LinkConflict ==
    /\ Identified /\ req.in.method # "signup" /\ req.in.info.id # ""
    /\ req.pre.user # ""
    /\ \E n \in LinkedBefore : n # req.pre.user

\* C9: a provider login with a method other than signup and an active
\* session, for an identity already linked to another local account, is
\* rejected; no link is written and the error names the identity's account at
\* the provider and the local account it is linked to.
C9_LinkConflictRejected ==
    LinkConflict =>
        /\ Len(req.out) = 1 /\ req.out[1].status = "error"
        /\ req.in.info.username \in req.out[1].names
        /\ \E n \in LinkedBefore : n # req.pre.user /\ n \in req.out[1].names
        /\ ~HasEv(req.log, "LinkUserAccount")
        /\ ~HasEv(req.log, "SetUserOAuthProperties")
        /\ StoreUntouched /\ sess = req.pre

C9_Witness ==
    /\ LinkConflict /\ req.pre.user = "alice" /\ req.in.info = InfoRobert
    /\ req.out[1].names = {"robert", "bob"}

BusinessRuleMessages ==
    {"Unauthorized operation",
     "User's tag is not listed in the application's tags",
     "paid-user does not have active or pending subscription",
     "not allowed to sign up as new account",
     "not allowed to sign up as new account via provider",
     "already linked to another account",
     "The user is forbidden to sign in"}

BusinessRejection ==
    /\ LoginServed
    /\ \E i \in 1..Len(req.out) :
          req.out[i].status = "error" /\ req.out[i].msg \in BusinessRuleMessages

\* C10: a Login request rejected by a business rule leaves storage as it was:
\* no Principal, account link, Identity Link or role assignment was created
\* or updated by the request.
C10_RejectionLeavesStorage ==
    BusinessRejection =>
        /\ users = req.store.users /\ idps = req.store.idps
        /\ roles = req.store.roles

(***************************************************************************)
(* Validation errors                                                       *)
(***************************************************************************)
ValidationMessages ==
    {"State expected, but got another",
     "Challenge method should be S256",
     "grant_type is not supported",
     "The provider is not enabled for the application"}

ValidationRejection ==
    /\ LoginServed
    /\ \E i \in 1..Len(req.out) :
          req.out[i].status = "error" /\ req.out[i].msg \in ValidationMessages

\* C11: a request rejected for a validation error (state mismatch, bad PKCE
\* method, unsupported grant type, provider not enabled) has had no side
\* effect: no Principal, account link, Identity Link or role assignment was
\* written and the session was not bound, on every branch of Login.
C11_ValidationBeforeSideEffects ==
    ValidationRejection =>
        /\ users = req.store.users /\ idps = req.store.idps
        /\ roles = req.store.roles
        /\ sess.user = req.pre.user

(***************************************************************************)
(* Completion rules of HandleLoggedIn                                      *)
(***************************************************************************)
\* HandleLoggedIn completed for n: status ok and a session entry appended
CompletedFor(n) ==
    /\ LoginServed /\ n \in Completing
    /\ req.hl.status = "ok" /\ Appended(n) = 1

\* C12 as stated: when the application lists tags, every user for whom
\* HandleLoggedIn completes carries a listed tag.
C12_CompletedCarryListedTag ==
    \A n \in Names :
        (CompletedFor(n) /\ req.in.tags # {}) => users[n].tag \in req.in.tags

\* C12 amended: when the application lists tags, every user for whom
\* HandleLoggedIn completes carries a listed tag or is an administrator
\* (global or of the organization); a user who is neither and carries no
\* listed tag is answered with the tag rejection and gets no session entry.
C12_CompletedCarryListedTagOrAdmin ==
    \A n \in Names :
        /\ (CompletedFor(n) /\ req.in.tags # {}) =>
              \/ users[n].tag \in req.in.tags
              \/ users[n].isAdmin \/ IsGlobalAdmin(users[n])
        /\ ( /\ LoginServed /\ n \in Completing /\ req.in.tags # {}
             /\ req.store.users[n].type # "invited-user" /\ req.in.perm = "allowed"
             /\ ~req.store.users[n].isAdmin /\ ~IsGlobalAdmin(req.store.users[n])
             /\ req.store.users[n].tag \notin req.in.tags ) =>
              /\ req.hl = NoResp /\ TotalAppended = 0
              /\ req.out[1] = Resp("error",
                      "User's tag is not listed in the application's tags", "")

C12_Witness ==
    /\ CompletedFor("alice") /\ req.in.tags = {"staff"}
    /\ users["alice"].tag = "staff" /\ ~users["alice"].isAdmin

C12_WitnessAdmin ==
    /\ CompletedFor("alice") /\ req.in.tags = {"staff"}
    /\ users["alice"].tag = "guest" /\ users["alice"].isAdmin

\* HandleLoggedIn was called for the paid user n who has no active subscription
PaidWithoutActive(n) ==
    /\ LoginServed /\ n \in Completing
    /\ req.store.users[n].type = "paid-user"
    /\ "Active" \notin req.store.users[n].subs

ArtifactOps ==
    {"GetOAuthCode", "GetTokenByUser", "GetSamlResponse", "GenerateCasToken"}

\* the outcome of the subscription rule for user u
PlanOutcome(u, in) ==
    IF "Pending" \in u.subs THEN Resp("ok", "", "BuyPlanResult")
    ELSE IF in.pricing THEN Resp("ok", "", "SelectPlan")
    ELSE Resp("error", "paid-user does not have active or pending subscription", "")

C13_WitnessSelectPlan ==
    /\ PaidWithoutActive("alice") /\ req.out[1] = Resp("ok", "", "SelectPlan")

\* HandleLoggedIn reached the implicit flow (response type token or id_token)
ImplicitFlow ==
    /\ LoginServed /\ HasEv(req.log, "IsGrantTypeValid")
    /\ req.in.type \in {ResponseTypeToken, ResponseTypeIdToken}

\* C14: for response types token and id_token a token is issued only when
\* the application's grant types permit the requested type; otherwise
\* HandleLoggedIn returns an error response, issues no token and appends no
\* session entry.
C14_TokenOnlyForPermittedGrantType ==
    /\ (LoginServed /\ HasEv(req.log, "GetTokenByUser")) =>
          /\ req.in.type \in {ResponseTypeToken, ResponseTypeIdToken}
          /\ EvArgs("IsGrantTypeValid") = {"true"}
    /\ (LoginServed /\ \E i \in 1..Len(req.out) : req.out[i].data = "accesstoken") =>
          EvArgs("IsGrantTypeValid") = {"true"}
    /\ (ImplicitFlow /\ EvArgs("IsGrantTypeValid") = {"false"}) =>
          /\ req.hl = Resp("error", "grant_type is not supported", "")
          /\ req.out[Len(req.out)] = req.hl
          /\ ~HasEv(req.log, "GetTokenByUser")
          /\ ~HasEv(req.log, "AddSession") /\ TotalAppended = 0

C14_Witness ==
    /\ ImplicitFlow /\ req.in.type = ResponseTypeToken
    /\ ResponseTypeToken \notin req.in.grantTypes
    /\ req.hl.status = "error" /\ ~HasEv(req.log, "GetTokenByUser")

C14_WitnessIssued ==
    /\ ImplicitFlow /\ req.in.type \in req.in.grantTypes
    /\ req.hl = Resp("ok", "", "accesstoken") /\ TotalAppended = 1

\* HandleLoggedIn reached the artifact step with response type cas
CasFlow(n) ==
    /\ LoginServed /\ n \in Completing /\ req.in.type = ResponseTypeCas
    /\ PassesGates(req.store.users[n], req.in)

C15_WitnessFailed ==
    /\ CasFlow("alice") /\ req.in.service = "svc" /\ req.in.issue = "err"
    /\ req.hl.status = "error"

(***************************************************************************)
(* Provider sign-up                                                        *)
(***************************************************************************)
\* a provider login with method signup whose identity was established
SignupIdentified ==
    Identified /\ req.in.method = "signup" /\ IsThirdParty(req.in.category)

\* accounts of the organization, not deleted, whose field had the value when
\* the request came in
LiveBefore(field, value) ==
    {n \in Names : /\ req.store.users[n].present
                   /\ req.store.users[n].owner = Org
                   /\ ~req.store.users[n].isDeleted
                   /\ req.store.users[n][field] = value}

\* accounts the application's link-by-contact setting could match
ContactMatches ==
    IF ~req.in.linkWithEmail THEN {}
    ELSE (IF req.in.info.email # "" THEN LiveBefore("email", req.in.info.email)
          ELSE {})
         \cup (IF req.in.info.phone # ""
               THEN LiveBefore("phone", req.in.info.phone) ELSE {})

NoUsableAccount ==
    LiveBefore("link", req.in.info.id) = {} /\ ContactMatches = {}

SignupDisallowed ==
    (~req.in.internalSignUp /\ ~req.in.idpSignUp) \/ ~req.in.canSignUp

CreationOps == {"AddUser", "LinkUserAccount", "SetUserOAuthProperties",
                "AddUserIdProvider", "UpdateUserIdProvider", "AddRolesToUser"}

\* C18: provider sign-up with no usable existing account, when the
\* application disallows both internal and IdP-driven signup or the provider
\* item's CanSignUp flag is false: the request is rejected and no Principal,
\* account link or Identity Link is created.
C18_SignupDisallowedCreatesNothing ==
    (SignupIdentified /\ NoUsableAccount /\ SignupDisallowed) =>
        /\ Len(req.out) = 1 /\ req.out[1].status = "error"
        /\ req.out[1].msg =
              IF ~req.in.internalSignUp /\ ~req.in.idpSignUp
              THEN "not allowed to sign up as new account"
              ELSE "not allowed to sign up as new account via provider"
        /\ StoreUntouched
        /\ sess = req.pre
        /\ Completing = {}
        /\ \A op \in CreationOps : EvCount(op) = 0

\* the CanSignUp flag is off and the only account linked to the subject is
\* a deleted one
C18_Witness ==
    /\ SignupIdentified /\ NoUsableAccount
    /\ ~req.in.canSignUp /\ req.in.internalSignUp
    /\ req.in.info = InfoAlice
    /\ req.store.users["alice"].isDeleted /\ req.store.users["alice"].link = "s1"
    /\ req.out[1].status = "error" /\ StoreUntouched

\* both signup switches of the application are off, the subject is unknown
C18_WitnessApplication ==
    /\ SignupIdentified /\ NoUsableAccount
    /\ ~req.in.internalSignUp /\ ~req.in.idpSignUp
    /\ req.in.info = InfoCarol
    /\ req.out[1].status = "error" /\ StoreUntouched

\* the account the lookup by external subject id returned for the request
LinkedUser ==
    GetUserByField(Ctx(req.store.users, req.store.idps, req.store.roles,
                       req.store.sessionDb, req.pre),
                   "link", req.in.info.id)

\* a sign-up for a subject whose linked account is not deleted
SignupOfLinked ==
    SignupIdentified /\ LinkedUser.present /\ ~LinkedUser.isDeleted

Principals(u) == {n \in Names : u[n].present}

\* identity links of the provider recorded for the account
LinksOf(rows, n) == {r \in rows : r.provider = ProviderName /\ r.userId = n}

\* identity links of the provider recorded under the reported IdP username
LinksUnder(rows, name) ==
    {r \in rows : /\ r.owner = Org /\ r.provider = ProviderName
                  /\ r.usernameFromIdp = name}

\* C19: provider sign-up when a local user that is not deleted is already
\* linked to the external subject id: no new Principal is created, the
\* request proceeds to HandleLoggedIn as an ordinary sign-in, and the
\* existing Identity Link's last-sign-in time is updated without inserting a
\* new link.
C19_LinkedSignupIsSignin ==
    SignupOfLinked =>
        /\ EvCount("AddUser") = 0
        /\ Principals(users) = Principals(req.store.users)
        /\ Completing = {LinkedUser.name}
        /\ EvCount("AddUserIdProvider") = 0
        /\ Cardinality(idps) = Cardinality(req.store.idps)
        /\ LinksOf(idps, LinkedUser.name) # {}
        /\ \A r \in LinksOf(idps, LinkedUser.name) : r.lastSignIn = req.in.now

\* What the handler does for a linked account: a forbidden user is rejected
\* before HandleLoggedIn with nothing written; any other goes to
\* HandleLoggedIn, and then the identity links recorded under the username
\* the IdP reported get the time of the request, no link being inserted.
LinkedSignupStampsByUsername ==
    SignupOfLinked =>
        /\ EvCount("AddUser") = 0
        /\ Principals(users) = Principals(req.store.users)
        /\ EvCount("AddUserIdProvider") = 0
        /\ Cardinality(idps) = Cardinality(req.store.idps)
        /\ IF LinkedUser.isForbidden
           THEN /\ Completing = {}
                /\ Len(req.out) = 1 /\ req.out[1].status = "error"
                /\ req.out[1].msg = "The user is forbidden to sign in"
                /\ StoreUntouched
           ELSE /\ Completing = {LinkedUser.name}
                /\ EvCount("UpdateUserIdProvider") = 1
                /\ EvArgs("UpdateUserIdProvider") = {req.in.info.username}
                /\ idps = (req.store.idps
                             \ LinksUnder(req.store.idps, req.in.info.username))
                          \cup {[r EXCEPT !.lastSignIn = req.in.now] :
                                  r \in LinksUnder(req.store.idps,
                                                   req.in.info.username)}

\* alice, linked to s1, signs up again later: her link is stamped, nothing
\* is added
C19_Witness ==
    /\ SignupOfLinked /\ LinkedUser.name = "alice" /\ ~LinkedUser.isForbidden
    /\ req.in.now = MaxTime
    /\ Completing = {"alice"} /\ req.hl.status = "ok"
    /\ \E r \in LinksOf(req.store.idps, "alice") : r.lastSignIn < MaxTime
    /\ \A r \in LinksOf(idps, "alice") : r.lastSignIn = MaxTime

\* a forbidden linked user is turned away
C19_WitnessForbidden ==
    /\ SignupOfLinked /\ LinkedUser.isForbidden
    /\ Completing = {} /\ StoreUntouched

\* the IdP reports the subject under another username than the one the link
\* was recorded with: the link of the account keeps its old time
C19_WitnessRenamed ==
    /\ SignupOfLinked /\ LinkedUser.name = "bob"
    /\ req.in.info.username = "robert" /\ req.in.now = MaxTime
    /\ Completing = {"bob"}
    /\ \A r \in LinksOf(idps, "bob") : r.lastSignIn < MaxTime

\* a sign-up with linking by contact enabled, for a subject no account that
\* is not deleted is linked to
SignupByContact ==
    /\ SignupIdentified /\ req.in.linkWithEmail
    /\ LiveBefore("link", req.in.info.id) = {}

EmailMatches ==
    IF req.in.info.email # "" THEN LiveBefore("email", req.in.info.email) ELSE {}

PhoneMatches ==
    IF req.in.info.phone # "" THEN LiveBefore("phone", req.in.info.phone) ELSE {}

\* C20: provider sign-up when no non-deleted account is linked to the
\* external subject and the application enables linking by contact: an
\* existing account is searched by the IdP email first and then by the IdP
\* phone, and a new Principal is created only when neither the email nor the
\* phone matches an existing non-deleted account.
C20_CreateOnlyWithoutContactMatch ==
    SignupByContact =>
        /\ EvCount("AddUser") > 0 => (EmailMatches = {} /\ PhoneMatches = {})
        /\ EmailMatches # {} => EvArgs("LinkUserAccount") \subseteq EmailMatches
        /\ (EmailMatches = {} /\ PhoneMatches # {} /\ EvCount("AddUser") = 0)
              => EvArgs("LinkUserAccount") \subseteq PhoneMatches

\* the email matches alice and the phone matches bob: alice is linked
C20_WitnessEmailFirst ==
    /\ SignupByContact /\ req.in.info = InfoCarolContacts
    /\ EmailMatches = {"alice"} /\ PhoneMatches = {"bob"}
    /\ EvArgs("LinkUserAccount") = {"alice"} /\ users["alice"].link = "s3"
    /\ EvCount("AddUser") = 0

\* no email is reported, the phone matches bob: bob is linked
C20_WitnessPhone ==
    /\ SignupByContact /\ req.in.info = InfoCarolPhone
    /\ PhoneMatches = {"bob"}
    /\ EvArgs("LinkUserAccount") = {"bob"} /\ users["bob"].link = "s3"
    /\ EvCount("AddUser") = 0

\* the subject's own account is deleted and the phone matches bob: the phone
\* is not searched and carol is created
C20_WitnessDeletedLinked ==
    /\ SignupByContact /\ req.in.info = InfoReturning
    /\ req.store.users["alice"].isDeleted /\ req.store.users["alice"].link = "s1"
    /\ PhoneMatches = {"bob"}
    /\ EvArgs("AddUser") = {"carol"} /\ users["carol"].present
    /\ ~req.store.users["carol"].present

\* the email matches only a deleted account and the phone matches bob: the
\* phone is not searched and carol is created
C20_WitnessDeletedEmail ==
    /\ SignupByContact /\ req.in.info = InfoCarolContacts
    /\ req.store.users["alice"].isDeleted
    /\ EmailMatches = {} /\ PhoneMatches = {"bob"}
    /\ EvArgs("AddUser") = {"carol"} /\ users["carol"].present

(***************************************************************************)
(* Scan-event mailbox                                                      *)
(***************************************************************************)
\* the poll of worker w has read the slot
PollAnswered(w) ==
    web[w].handler = "poll" /\ web[w].pc \in {"clear", "return"}

\* C16: under any interleaving of posts and polls, a poll returns the event
\* of the most recent post with a non-empty EventKey made since the previous
\* poll (the empty string if there was none) and clears the slot; no posted
\* event is returned by two different polls.
C16_PollReturnsLatestPostOnce ==
    /\ \A w \in Workers : PollAnswered(w) => web[w].data = web[w].expect
    /\ \A w \in Workers :
          (web[w].handler = "poll" /\ web[w].pc = "return")
             => wechatScanType = ""
    /\ lock = {} => wechatScanType = scan.latest
    /\ ~scan.twice

\* two posts were unread, the poll answers the later one while another post
\* waits for the lock
C16_Witness ==
    \E w \in Workers, v \in Workers :
       /\ PollAnswered(w) /\ web[w].pc = "return"
       /\ web[w].unread = 2 /\ web[w].data = "subscribe"
       /\ web[v].handler = "post" /\ web[v].pc = "lock"
       /\ web[v].eventKey # ""

\* a poll with nothing posted since the previous poll answers ""
C16_WitnessEmpty ==
    \E w \in Workers :
       /\ PollAnswered(w) /\ web[w].unread = 0 /\ web[w].data = ""
       /\ scan.returned # {}

\* C17: a post with an empty EventKey leaves the mailbox unchanged; only a
\* post with a non-empty EventKey replaces the slot, with the post's Event.
C17_OnlyKeyedPostReplacesSlot ==
    [][\A w \in Workers :
          ((web[w].handler = "post" \/ web'[w].handler = "post")
             /\ web'[w] # web[w])
            => wechatScanType' =
                  IF web[w].pc = "cs" /\ web[w].eventKey # ""
                  THEN web[w].event ELSE wechatScanType]_vars

\* a post without EventKey has passed its critical section over a full slot
C17_Witness ==
    \E w \in Workers :
       /\ web[w].handler = "post" /\ web[w].pc = "return"
       /\ web[w].eventKey = "" /\ web[w].event = "SCAN"
       /\ web[w].before = "subscribe" /\ wechatScanType = "subscribe"

\* a post with EventKey has replaced the slot
C17_WitnessKeyed ==
    \E w \in Workers :
       /\ web[w].handler = "post" /\ web[w].pc = "return"
       /\ web[w].eventKey # "" /\ web[w].event = "SCAN"
       /\ web[w].before = "subscribe" /\ wechatScanType = "SCAN"

(***************************************************************************)
(* Directory synchronization                                               *)
(***************************************************************************)
\* a run that follows a run which returned no error and no failed record
SyncAfterCleanRun ==
    /\ sync.pc # "idle" /\ sync.run >= 2
    /\ sync.ended = "returned" /\ sync.endErr = "" /\ ~sync.endFailed

SyncWrites(op) == {w \in sync.wrote : w[2] = op}

SyncUuidPresent ==
    \E n \in Names : /\ users[n].present /\ users[n].owner = Org
                     /\ users[n].ldap = sync.batch[sync.i].uuid

\* an existing record is never sent to creation and is listed in existUsers
SyncClassifiesExisting ==
    /\ sync.pc = "create" => ~SyncUuidPresent
    /\ (sync.pc = "roles" /\ sync.found) =>
          /\ sync.existUsers # <<>>
          /\ sync.existUsers[Len(sync.existUsers)] = sync.batch[sync.i]
    /\ Cardinality(sync.existIdx) = Len(sync.existUsers) \/ sync.err # ""

C22_WitnessRoles ==
    /\ sync.pc = "done" /\ sync.err = "" /\ sync.roleMapping
    /\ sync.batch = <<RecJdoe>> /\ sync.existIdx = {1}
    /\ sync.wrote = {<<1, "SyncRoles">>}
    /\ <<"jdoe", "member">> \in roles /\ sync.store0.roles = {}

\* the run has returned and its creations failed, if at all, at AddUser only
SyncReturnedAfterCreationFailures ==
    /\ sync.pc = "done"
    /\ sync.err \in {"", "insert failed"}

\* C23: a failure to create the Principal of one record never aborts the
\* batch: the record is collected into failedUsers and every later record is
\* still processed, whether the creation fails by returning an error or by
\* reporting that nothing was inserted.
C23_CreationFailureDoesNotAbort ==
    SyncReturnedAfterCreationFailures =>
        /\ sync.begun = 1..Len(sync.batch)
        /\ sync.err = ""
        /\ \A k \in 1..Len(sync.batch) :
              (<<k, "AddUser">> \in sync.wrote
                 /\ <<k, "AddUserIdProvider">> \notin sync.wrote)
                => \E j \in 1..Len(sync.failedUsers) :
                      sync.failedUsers[j] = sync.batch[k]

\* AddUser reported nothing inserted for msmith: the record is in
\* failedUsers and kim, after it, was created
C23_WitnessUnaffected ==
    /\ sync.pc = "done" /\ sync.err = ""
    /\ sync.batch = <<RecJdoe, RecSmith, RecKim>>
    /\ sync.failedUsers = <<RecSmith>>
    /\ "kim" \in sync.created /\ sync.begun = {1, 2, 3}

\* AddUser returned an error for msmith: the run returned at once, kim was
\* never reached and both lists are nil
C23_WitnessError ==
    /\ sync.pc = "done" /\ sync.err = "insert failed"
    /\ sync.batch = <<RecJdoe, RecSmith, RecKim>>
    /\ sync.begun = {1, 2} /\ sync.created = {"jdoe"}
    /\ sync.failedUsers = <<>> /\ sync.existUsers = <<>>
    /\ ~users["kim"].present

\* the three outcomes of the record at index k of the running batch
SyncOutcomeExisting(k) == k \in sync.existIdx
SyncOutcomeFailed(k) ==
    /\ <<k, "AddUser">> \in sync.wrote
    /\ <<k, "AddUserIdProvider">> \notin sync.wrote
SyncOutcomeCreated(k) == <<k, "AddUserIdProvider">> \in sync.wrote

SyncOutcomesPartition ==
    /\ Len(sync.existUsers) + Len(sync.failedUsers) + Cardinality(sync.created)
          = Len(sync.batch)
    /\ Len(sync.existUsers) = Cardinality(sync.existIdx)
    /\ Len(sync.failedUsers)
          = Cardinality({k \in 1..Len(sync.batch) : SyncOutcomeFailed(k)})
    /\ \A k \in 1..Len(sync.batch) :
          \/ SyncOutcomeExisting(k) /\ ~SyncOutcomeFailed(k) /\ ~SyncOutcomeCreated(k)
          \/ ~SyncOutcomeExisting(k) /\ SyncOutcomeFailed(k)
          \/ ~SyncOutcomeExisting(k) /\ SyncOutcomeCreated(k)
                /\ <<k, "AddUser">> \in sync.wrote

C24_WitnessRepeated ==
    /\ sync.pc = "done" /\ sync.err = ""
    /\ sync.batch = <<RecKim, RecKim>>
    /\ sync.existUsers = <<RecKim>> /\ sync.created = {"kim"}

\* a run that was stopped (crash or error return) has been followed by a run
\* on the same batch that returned no error and no failed record
SyncRerunCompleted ==
    /\ sync.pc = "done" /\ sync.run >= 2
    /\ sync.err = "" /\ sync.failedUsers = <<>>
    /\ sync.ended = "crashed" \/ (sync.ended = "returned" /\ sync.endErr # "")

SyncPrincipalsOf(uuid) ==
    {n \in Names : users[n].present /\ users[n].owner = Org
                      /\ users[n].ldap = uuid}

SyncLinksOf(uuid) ==
    {r \in idps : r.owner = Org /\ r.ldapId = LdapServerId
                    /\ r.usernameFromIdp = uuid}

\* C25: a run of SyncLdapUsers stopped at any point and re-run to completion on
\* the same batch leaves the storage of an uninterrupted run: for every uuid
\* of the batch exactly one Principal and exactly one Identity Link.
C25_RerunEqualsUninterruptedRun ==
    SyncRerunCompleted =>
        \A k \in 1..Len(sync.batch) :
            /\ Cardinality(SyncPrincipalsOf(sync.batch[k].uuid)) = 1
            /\ Cardinality(SyncLinksOf(sync.batch[k].uuid)) = 1

\* the part that does hold: the Principals created before the stop are
\* intact and not duplicated after the re-run
C25_RerunKeepsPrincipals ==
    SyncRerunCompleted =>
        \A k \in 1..Len(sync.batch) :
            Cardinality(SyncPrincipalsOf(sync.batch[k].uuid)) = 1

\* the first run stopped between AddUser and AddUserIdProvider of jdoe; the
\* re-run lists jdoe as existing and returns, and jdoe has no Identity Link
C25_WitnessMissingLink ==
    /\ SyncRerunCompleted /\ sync.batch = <<RecJdoe>>
    /\ sync.existUsers = <<RecJdoe>>
    /\ SyncPrincipalsOf(RecJdoe.uuid) = {"jdoe"}
    /\ SyncLinksOf(RecJdoe.uuid) = {}

\* C30: one run of SyncLdapUsers issues a single batched lookup of the
\* existing uuids, over the full candidate set, not one lookup per record.
C30_SingleLookupPerRun ==
    sync.lookups <= 1

\* what the run does issue: one lookup, over the full candidate set, for each
\* record it has begun
C30_LookupPerRecord ==
    sync.lookups = Cardinality(sync.begun)

\* a run over three records has returned after three lookups
C30_WitnessThreeLookups ==
    /\ sync.pc = "done" /\ sync.err = ""
    /\ Len(sync.batch) = 3 /\ sync.lookups = 3

\* buildLdapUserName has just returned for the record under the loop, and
\* the user table is still the one it read
SyncNameResolved ==
    \/ sync.pc = "create"
    \/ sync.pc = "roles" /\ sync.found

SyncRecord == sync.batch[sync.i]

SyncComposite == SyncRecord.uid \o "_" \o SyncRecord.uidNumber

\* a user named exactly the uid of the record exists and is not the user of
\* this directory entry
SyncUidTakenByOther ==
    /\ SyncRecord.uid \in Names
    /\ users[SyncRecord.uid].present
    /\ users[SyncRecord.uid].ldap # SyncRecord.uuid

\* C26 (as stated): when a local user named exactly the uid exists with another
\* LDAP back-reference, the resolved name is exactly uid_uidNumber, without a
\* random suffix.
C26_UidTakenGivesComposite ==
    (SyncNameResolved /\ SyncUidTakenByOther) => sync.name = SyncComposite

\* C26 (amended): the same, when the row the lookup returned is that user, as
\* it is whenever no user named uid_uidNumber exists.
C26_UidRowGivesComposite ==
    (SyncNameResolved /\ SyncUidTakenByOther)
        => /\ sync.hit = SyncRecord.uid => sync.name = SyncComposite
           /\ (SyncComposite \in Names /\ ~users[SyncComposite].present)
                 => sync.hit = SyncRecord.uid

\* jdoe is a local user without LDAP back-reference, nobody is named
\* jdoe_1001: the record of uid jdoe, uidNumber 1001 resolves to jdoe_1001
C26_Witness ==
    /\ sync.pc = "create" /\ SyncRecord = RecJdoe
    /\ users["jdoe"] = BaseUser("jdoe") /\ ~users["jdoe_1001"].present
    /\ sync.hit = "jdoe" /\ sync.name = "jdoe_1001"

\* jdoe and jdoe_1001 both exist for other directory entries and the lookup
\* returned the row jdoe_1001: the resolved name carries a random suffix
C26_WitnessSuffix ==
    /\ sync.pc = "create" /\ SyncRecord = RecJdoe
    /\ SyncUidTakenByOther /\ users["jdoe_1001"].present
    /\ sync.hit = "jdoe_1001" /\ sync.name = "jdoe_1001_a1b2c3"

\* the row buildLdapUserName found for the record under the loop
SyncHitRow == users[sync.hit]

C27_WitnessSuffix ==
    /\ SyncNameResolved /\ SyncRecord = RecJdoe
    /\ sync.hit = "jdoe_1001" /\ users["jdoe_1001"].ldap # RecJdoe.uuid
    /\ sync.name = "jdoe_1001_d4e5f6"

\* no user found and an empty uid: the common name
C27_WitnessCommonName ==
    /\ SyncNameResolved /\ SyncRecord = RecKim
    /\ sync.hit = "" /\ sync.name = "kim"

\* no user found: the uid
C27_WitnessUid ==
    /\ SyncNameResolved /\ SyncRecord = RecSmith
    /\ sync.hit = "" /\ sync.name = "msmith"

(***************************************************************************)
(* Identity links                                                          *)
(***************************************************************************)
\* a password login of a directory user has gone through HandleLoggedIn and
\* issued its update of the identity link
LdapLoginCompleted ==
    /\ Served("password")
    /\ EvCount("UpdateUserIdProvider") = 1
    /\ Cardinality(Completing) = 1

\* identity links of an LDAP source recorded for the account
LdapLinksOf(rows, n) == {r \in rows : r.ldapId # "" /\ r.userId = n}

IdpKeysUnique(rows) ==
    \A r1, r2 \in rows : IdpKey(r1) = IdpKey(r2) => r1 = r2

\* C28: storage holds at most one Identity Link per (owner, provider or LDAP
\* source, external subject), and a login through an already linked source
\* updates the existing link's timestamp and never inserts a second link.
C28_OneLinkPerSubjectStamped ==
    /\ IdpKeysUnique(idps)
    /\ SignupOfLinked => Cardinality(idps) = Cardinality(req.store.idps)
    /\ LdapLoginCompleted =>
          /\ Cardinality(idps) = Cardinality(req.store.idps)
          /\ \A n \in Completing :
                /\ LdapLinksOf(idps, n) # {}
                /\ \A r \in LdapLinksOf(idps, n) : r.lastSignIn = req.in.now

\* what holds: links are unique per key and a login through a linked source
\* inserts none
C28_LoginInsertsNoLink ==
    /\ IdpKeysUnique(idps)
    /\ SignupOfLinked => Cardinality(idps) = Cardinality(req.store.idps)
    /\ LdapLoginCompleted => Cardinality(idps) = Cardinality(req.store.idps)

\* alice, synchronized from the directory entry uuid-alice, has logged in
\* with her LDAP password at time MaxTime: the update went out under the name
\* alice and her link, recorded under the uuid, still has its old time
C28_WitnessLdapStale ==
    /\ LdapLoginCompleted /\ Completing = {"alice"}
    /\ req.in.now = MaxTime
    /\ EvArgs("UpdateUserIdProvider") = {"alice"}
    /\ \E r \in LdapLinksOf(idps, "alice") :
          r.usernameFromIdp = "uuid-alice" /\ r.lastSignIn < MaxTime
    /\ idps = req.store.idps

\* the served provider request linked the external subject to an account
\* that was not linked to it before, and answered ok
FirstLinkSucceeded ==
    /\ Served("provider")
    /\ EvCount("LinkUserAccount") = 1
    /\ \A n \in EvArgs("LinkUserAccount") :
          /\ users[n].link = req.in.info.id
          /\ req.store.users[n].link # req.in.info.id
    /\ Len(req.out) = 1 /\ req.out[1].status = "ok"

\* identity links recorded for the account, or under the username the IdP
\* reported for the subject
LinksFor(rows, n) == LinksOf(rows, n) \cup LinksUnder(rows, req.in.info.username)

\* C29: every successful first link of an external identity to a Principal
\* creates an Identity Link for (owner, source, external subject), on the
\* sign-up paths and when the identity is linked to the signed-in session
\* user (method other than signup).
C29_FirstLinkCreatesIdentityLink ==
    FirstLinkSucceeded =>
        \A n \in EvArgs("LinkUserAccount") : LinksFor(idps, n) # {}

\* what holds: the sign-up paths (account created, account matched by email
\* or phone) record the link; the session path writes no Identity Link at all
C29_SignupLinkCreatesIdentityLink ==
    FirstLinkSucceeded =>
        IF req.in.method = "signup"
        THEN /\ EvCount("AddUserIdProvider") = 1
             /\ \A n \in EvArgs("LinkUserAccount") : LinksFor(idps, n) # {}
        ELSE /\ EvCount("AddUserIdProvider") = 0
             /\ idps = req.store.idps

\* alice, signed in, has linked the subject s3 (carol at the IdP) to her
\* account: the account link is set and no Identity Link exists for carol
C29_WitnessSessionLink ==
    /\ FirstLinkSucceeded /\ req.in.method = "signin"
    /\ req.pre.user = "alice" /\ req.in.info = InfoCarol
    /\ users["alice"].link = "s3"
    /\ LinksOf(idps, "alice") = {} /\ LinksUnder(idps, "carol") = {}

\* carol signed up through the provider: account and Identity Link created
C29_WitnessSignup ==
    /\ FirstLinkSucceeded /\ req.in.method = "signup"
    /\ req.in.info = InfoCarol /\ ~req.store.users["carol"].present
    /\ users["carol"].link = "s3"
    /\ \E r \in LinksUnder(idps, "carol") : r.userId = "carol"

(***************************************************************************)
(* Directory search                                                        *)
(***************************************************************************)
\* the roles the role mapping table yields for the attributes seen so far:
\* every (name, value) pair of every attribute, in order
RECURSIVE RolesOfAttributes(_)
RolesOfAttributes(attrs) ==
    IF attrs = <<>> THEN <<>>
    ELSE RolesOfValues(Head(attrs).name, Head(attrs).values)
            \o RolesOfAttributes(Tail(attrs))

SeenNames == {search.seen[k].name : k \in 1..Len(search.seen)}

\* C31: in GetLdapUsers, with attribute mapping enabled no field is assigned
\* by the fixed attribute-name table; role mapping, when enabled, appends the
\* configured roles for every matching (name, value) pair over all values of
\* the attribute, whether or not attribute mapping is enabled.
C31_MappingReplacesTableRolesAlways ==
    search.pc # "idle" =>
        /\ search.attrMapping =>
              /\ search.bySwitch = {}
              /\ \A f \in LdapFields :
                    search.user[f] # "" =>
                        \E n \in SeenNames : AttributeMappingField(n) = f
        /\ ~search.attrMapping =>
              /\ search.byMapping = {}
              /\ search.bySwitch = {FixedField(n) : n \in SeenNames} \ {""}
        /\ search.roles = IF search.roleMapping
                           THEN RolesOfAttributes(search.seen)
                           ELSE <<>>

\* attribute mapping and role mapping both on: mail went to Email and not to
\* Mail, memberOf was not copied, and both of its values gave their role
C31_Witness ==
    /\ search.pc = "done" /\ search.attrMapping /\ search.roleMapping
    /\ search.seen = <<[name |-> "mail", values |-> <<"jdoe">>],
                       [name |-> "memberOf", values |-> <<"devs", "admins">>]>>
    /\ search.user["Email"] = "jdoe" /\ search.user["Mail"] = ""
    /\ search.user["MemberOf"] = ""
    /\ search.roles = <<"developer", "admin">>

\* attribute mapping off: the fixed table assigns, the roles are the same
C31_WitnessTable ==
    /\ search.pc = "done" /\ ~search.attrMapping /\ search.roleMapping
    /\ search.seen = <<[name |-> "mail", values |-> <<"jdoe">>],
                       [name |-> "memberOf", values |-> <<"devs", "admins">>]>>
    /\ search.user["Mail"] = "jdoe" /\ search.user["Email"] = ""
    /\ search.user["MemberOf"] = "devs"
    /\ search.roles = <<"developer", "admin">>

(***************************************************************************)
(* Directory synchronization: one Principal per uuid                       *)
(***************************************************************************)
LdapUuids == {users[n].ldap : n \in Names} \ {""}

\* C32: after any sequence of SyncLdapUsers runs executed one after another
\* the organization has at most one Principal per LDAP uuid, also when one
\* batch holds the same uuid in more than one record.
C32_OnePrincipalPerUuid ==
    \A u \in LdapUuids \cup SyncUuids : Cardinality(SyncPrincipalsOf(u)) <= 1

\* a batch holding kim twice has been processed: one Principal for the uuid
C32_Witness ==
    /\ sync.pc = "done" /\ sync.err = "" /\ sync.batch = <<RecKim, RecKim>>
    /\ sync.created = {"kim"} /\ sync.existUsers = <<RecKim>>
    /\ SyncPrincipalsOf(RecKim.uuid) = {"kim"}

\* jdoe was created under a suffixed name by the first run; the second run
\* found the uuid and created nobody
C32_WitnessSuffixed ==
    /\ sync.pc = "done" /\ sync.err = "" /\ sync.run = 2
    /\ sync.batch = <<RecJdoe>> /\ sync.existUsers = <<RecJdoe>>
    /\ SyncPrincipalsOf(RecJdoe.uuid) = {"jdoe_1001_a1b2c3"}

\* both calls of SyncLdapUsers have been started
SyncBothRan == sync.run >= 1 /\ other.run >= 1

\* C33: two SyncLdapUsers runs executing concurrently for the same owner on
\* batches sharing a uuid never create two Principals, nor two Identity
\* Links, for that uuid, under any interleaving of their lookups and writes.
C33_ConcurrentRunsOnePrincipal ==
    SyncBothRan =>
        /\ Cardinality(SyncPrincipalsOf(RecJdoe.uuid)) <= 1
        /\ Cardinality(SyncLinksOf(RecJdoe.uuid)) <= 1

\* what holds under any interleaving: one Identity Link per uuid
C33_ConcurrentRunsOneLink ==
    SyncBothRan => Cardinality(SyncLinksOf(RecJdoe.uuid)) <= 1

\* both runs looked the uuid up before either inserted, and each resolved
\* the name with its own random suffix: two Principals for uuid-jdoe
C33_WitnessTwoPrincipals ==
    /\ SyncBothRan
    /\ SyncPrincipalsOf(RecJdoe.uuid) = {"jdoe_1001_a1b2c3", "jdoe_1001_d4e5f6"}
    /\ sync.created \cup other.created
          = {"jdoe_1001_a1b2c3", "jdoe_1001_d4e5f6"}

\* both runs resolved the same name: the second insert fails, one Principal
C33_WitnessSameName ==
    /\ SyncBothRan /\ sync.pc = "done" /\ sync.err = "insert failed"
    /\ other.created = {"jdoe"} /\ sync.name = "jdoe"
    /\ SyncPrincipalsOf(RecJdoe.uuid) = {"jdoe"}

(***************************************************************************)
(* HandleLoggedIn: session binding and the response                        *)
(***************************************************************************)
\* HandleLoggedIn was entered in the served request and bound the session
BoundInHandleLoggedIn ==
    /\ req.pc = "served" /\ req.handler = "Login"
    /\ Completing # {}
    /\ EvCount("SetSessionUsername") >= 1

ResponsesOk ==
    /\ Len(req.out) >= 1
    /\ \A i \in 1..Len(req.out) : req.out[i].status = "ok"

\* C34: HandleLoggedIn binds the server session to the user only in requests
\* whose response status is ok: for response types code, saml and cas a
\* failed artifact issuance leaves the session unbound.
C34_SessionBoundOnlyOnOk ==
    BoundInHandleLoggedIn => ResponsesOk

\* what holds: an error returned by GetOAuthCode or GetSamlResponse ends
\* HandleLoggedIn before the session is bound
C34_IssuanceErrorLeavesUnbound ==
    (req.pc = "served" /\ Completing # {} /\ req.in.issue = "err"
        /\ req.in.type \in {ResponseTypeCode, ResponseTypeSaml}
        /\ (EvCount("GetOAuthCode") + EvCount("GetSamlResponse")) >= 1)
      => /\ EvCount("SetSessionUsername") = 0
         /\ sess.user = req.pre.user

\* an authorization code came back empty for an application with sign-in
\* sessions: the response is an error and the session is bound to the user
C34_WitnessEmptyCode ==
    /\ BoundInHandleLoggedIn /\ req.in.type = ResponseTypeCode
    /\ req.in.issue = "empty" /\ req.in.bind
    /\ Len(req.out) = 1 /\ req.out[1].status = "error"
    /\ req.pre.user = "" /\ sess.user # ""

\* GenerateCasToken failed: error response, session bound
C34_WitnessCas ==
    /\ BoundInHandleLoggedIn /\ req.in.type = ResponseTypeCas
    /\ req.in.issue = "err" /\ req.in.bind /\ req.in.service # ""
    /\ req.out[1].status = "error"
    /\ req.pre.user = "" /\ sess.user # ""

(***************************************************************************)
(* Forbidden users on the provider branch                                  *)
(***************************************************************************)
\* C35: a user flagged forbidden never reaches HandleLoggedIn through the
\* provider branch of Login, whether the account was matched by its linked
\* external subject id, by email or by phone.
C35_ForbiddenNeverCompletesByProvider ==
    Served("provider") =>
        \A n \in Completing :
            req.store.users[n].present => ~req.store.users[n].isForbidden

\* what holds: a forbidden user matched by the linked subject id is rejected
C35_ForbiddenLinkedRejected ==
    (Served("provider") /\ SignupOfLinked /\ LinkedUser.isForbidden)
        => /\ Completing = {}
           /\ Len(req.out) = 1 /\ req.out[1].status = "error"

\* alice is forbidden and not linked; a new subject reporting her email
\* signs up with linking by email enabled: the subject is linked to alice
\* and HandleLoggedIn signs her in
C35_WitnessEmail ==
    /\ Served("provider") /\ req.in.method = "signup"
    /\ req.store.users["alice"].isForbidden /\ users["alice"].isForbidden
    /\ req.in.info.email = "alice@x" /\ req.in.linkWithEmail
    /\ Completing = {"alice"}
    /\ users["alice"].link = req.in.info.id
    /\ req.out[1].status = "ok" /\ sess.user # ""

(***************************************************************************)
(* Pending markers of the session                                          *)
(***************************************************************************)
\* C36: at the end of every Login request, after any sequence of requests in
\* one session, the MFA-pending marker and the change-password-pending
\* marker of the session are not both non-empty.
C36_MarkersExclusive ==
    (req.pc = "served" /\ req.handler = "Login")
        => ~(sess.mfa # "" /\ sess.cp # "")

\* what holds: the request that sets the change-password marker from the MFA
\* branch clears the MFA marker, and no single request sets both
C36_NoRequestSetsBoth ==
    (req.pc = "served" /\ req.handler = "Login")
        => /\ ~(sess.mfa # req.pre.mfa /\ sess.cp # req.pre.cp
                  /\ sess.mfa # "" /\ sess.cp # "")
           /\ (req.branch = "mfa" /\ sess.cp # req.pre.cp) => sess.mfa = ""

\* the change-password marker was pending when the user entered the
\* password again: the password branch set the MFA marker next to it
C36_WitnessBoth ==
    /\ Served("password")
    /\ req.pre.cp # "" /\ req.pre.mfa = ""
    /\ sess.cp = req.pre.cp /\ sess.mfa # ""
    /\ req.out[1].status = "ok" /\ req.out[1].data = NextMfa

(***************************************************************************)
(* C37                                                                     *)
(***************************************************************************)
\* storage writes, session-marker changes and calls to external providers
\* as they appear in the request log
StorageWriteOps ==
    {"AddSession", "AddUser", "AddUserIdProvider", "UpdateUserIdProvider",
     "AddRolesToUser", "LinkUserAccount", "SetUserOAuthProperties",
     "MfaRecover", "DisableVerificationCode"}

MarkerOps ==
    {"SetSessionUsername", "setMfaUserSession", "setChangePasswordUserSession",
     "setExpireForSession"}

ProviderCallOps ==
    {"GetToken", "GetUserInfo", "ParseSamlResponse", "GetLdapConn",
     "GetLdapUsers", "CheckLdapUserPassword"}

\* the operations logged after the first error response of the request
AfterError ==
    LET errs == {i \in 1..Len(req.log) : req.log[i] = <<"Response", "error">>} IN
    IF errs = {} THEN {}
    ELSE {req.log[j][1] :
            j \in {k \in 1..Len(req.log) :
                      k > (CHOOSE i \in errs : \A o \in errs : i <= o)}}

\* C37: once Login has emitted an error response for a request, it performs
\* no further storage write, marker change or external provider call for
\* that request.
C37_NothingAfterError ==
    (req.pc = "served" /\ req.handler = "Login")
        => AfterError \cap (StorageWriteOps \cup MarkerOps \cup ProviderCallOps) = {}

\* What holds instead: outside the provider branch the only effects after an
\* error response are the refresh of the Identity Link stamp and the
\* clearing of the pending marker of the branch.
C37_OnlyStampAndMarkerAfterError ==
    (req.pc = "served" /\ req.handler = "Login" /\ req.branch # "provider")
        => /\ AfterError \cap (StorageWriteOps \cup MarkerOps \cup ProviderCallOps)
                \subseteq {"UpdateUserIdProvider", "setMfaUserSession",
                           "setChangePasswordUserSession"}
           /\ "UpdateUserIdProvider" \in AfterError => req.branch = "password"
           /\ "setMfaUserSession" \in AfterError
                => req.branch = "mfa" /\ sess.mfa = ""
           /\ "setChangePasswordUserSession" \in AfterError
                => req.branch = "changePassword" /\ sess.cp = ""

\* a pending-MFA login whose completion was refused inside HandleLoggedIn
\* and whose marker was cleared afterwards
C37_WitnessMarkerCleared ==
    /\ Served("mfa")
    /\ req.out[1].status = "error"
    /\ "HandleLoggedIn" \in {req.log[i][1] : i \in 1..Len(req.log)}
    /\ "setMfaUserSession" \in AfterError
    /\ req.pre.mfa # "" /\ sess.mfa = ""

\* a directory user's password login refused inside HandleLoggedIn, the
\* stamp of the Identity Link refreshed afterwards
C37_WitnessStampRefreshed ==
    /\ Served("password")
    /\ req.out[1].status = "error"
    /\ "UpdateUserIdProvider" \in AfterError

(***************************************************************************)
(* C39                                                                     *)
(***************************************************************************)
\* the request went through SyncUserFromLdap
LdapSyncAttempted == Served("password") /\ HasEv(req.log, "SyncUserFromLdap.err")

\* positions of the request log holding the operation op
LogAt(op) == {i \in 1..Len(req.log) : req.log[i][1] = op}

\* the configured servers the ldapId of the form lets through, in order
LdapEligible ==
    {i \in 1..Len(req.in.ldaps) :
        req.in.ldapId = "" \/ req.in.ldaps[i].id = req.in.ldapId}

LdapFoundAt == {i \in LdapEligible : req.in.ldaps[i].answer = "found"}

\* the servers the loop reaches: the eligible ones up to the first match
LdapReached ==
    {i \in LdapEligible : \A k \in LdapFoundAt : i <= k}

LdapStoreUnchanged ==
    /\ users = req.store.users
    /\ idps = req.store.idps
    /\ roles = req.store.roles

\* C39: SyncUserFromLdap creates a Principal (and its Identity Link) only
\* after the password was verified against the directory; when the check
\* fails the error is returned, no further server is tried and nothing is
\* created; when no configured server yields a matching entry it returns no
\* user and no error and creates nothing.
C39_PrincipalOnlyAfterPasswordCheck ==
    LdapSyncAttempted =>
        /\ \A j \in LogAt("AddUser") \cup LogAt("AddUserIdProvider") :
              /\ req.in.ldapPwOk
              /\ \E i \in LogAt("CheckLdapUserPassword") : i < j
        /\ EvArgs("GetLdapConn") = {req.in.ldaps[i].id : i \in LdapReached}
        /\ (LdapFoundAt # {} /\ ~req.in.ldapPwOk) =>
              /\ EvArgs("SyncUserFromLdap.err") = {"LDAP password is incorrect"}
              /\ EvArgs("SyncUserFromLdap.user") = {""}
              /\ EvCount("AddReason") = 1
              /\ EvCount("CheckLdapUserPassword") = 1
              /\ \A i \in LogAt("CheckLdapUserPassword"), j \in LogAt("GetLdapConn") :
                    j < i
              /\ LdapStoreUnchanged
        /\ LdapFoundAt = {} =>
              /\ EvArgs("SyncUserFromLdap.err") = {""}
              /\ EvArgs("SyncUserFromLdap.user") = {""}
              /\ EvCount("AddReason") = 0
              /\ EvCount("CheckLdapUserPassword") = 0
              /\ LdapStoreUnchanged

\* the check of the password failed on the first of two servers that both
\* hold the entry
C39_WitnessBadPassword ==
    /\ LdapSyncAttempted
    /\ ~req.in.ldapPwOk
    /\ Cardinality(LdapFoundAt) >= 2
    /\ EvCount("GetLdapConn") = 1
    /\ EvCount("AddReason") = 1
    /\ LdapStoreUnchanged

\* no server yields an entry: one is down, another has no such entry
C39_WitnessNoMatch ==
    /\ LdapSyncAttempted
    /\ LdapFoundAt = {}
    /\ {req.in.ldaps[i].answer : i \in LdapEligible} = {"down", "empty"}
    /\ EvCount("GetLdapConn") = 2
    /\ req.out[1].status = "error"
    /\ LdapStoreUnchanged

\* the account is created from the second server after the first was down
C39_WitnessCreated ==
    /\ LdapSyncAttempted
    /\ req.in.ldapPwOk
    /\ EvCount("GetLdapConn") = 2
    /\ EvCount("AddUser") = 1
    /\ users[req.in.username].present
    /\ ~req.store.users[req.in.username].present
    /\ \E r \in idps : r.ldapId = LdapIdOf(2) /\ r.userId = req.in.username

(***************************************************************************)
(* C38                                                                     *)
(***************************************************************************)
\* the resolved name is the name of a user of the organization that is not
\* the user of this directory entry
SyncNameTakenByOther ==
    /\ sync.name \in Names
    /\ users[sync.name].present
    /\ users[sync.name].owner = Org
    /\ users[sync.name].ldap # SyncRecord.uuid

SyncNameSuffixed ==
    \E r \in HexSuffixes : sync.name = SyncComposite \o "_" \o r

\* C38: the name buildLdapUserName resolves for a record about to be created
\* equals the name of an existing local user only if that user's LDAP
\* back-reference is the record's uuid (names with a random suffix set
\* aside, the suffix being assumed fresh).
C38_ResolvedNameFree ==
    (sync.pc = "create" /\ ~SyncNameSuffixed) => ~SyncNameTakenByOther

\* What holds for the records with a uid: a resolved name without suffix is
\* taken only when the lookup returned the user named uid and the composite
\* name is in use too.
C38_TakenOnlyByComposite ==
    (sync.pc = "create" /\ SyncRecord.uid # "" /\ ~SyncNameSuffixed
        /\ SyncNameTakenByOther)
          => /\ sync.hit = SyncRecord.uid
             /\ sync.name = SyncComposite

\* jdoe and jdoe_1001 both belong to other directory entries, the lookup
\* returned jdoe: the record resolves to jdoe_1001, which is in use
C38_WitnessTaken ==
    /\ sync.pc = "create" /\ SyncRecord = RecJdoe
    /\ users["jdoe"] = Synced("jdoe", "uuid-other")
    /\ users["jdoe_1001"] = Synced("jdoe_1001", "uuid-other2")
    /\ sync.hit = "jdoe" /\ sync.name = "jdoe_1001"


=============================================================================
